---------------------------- MODULE Spec2Model ----------------------------
(***************************************************************************)
(* A model of the distributed key generation driver of src/dkg/committee.rs *)
(* (Gennaro, Jarecki, Krawczyk, Rabin with hybrid encryption of shares).    *)
(*                                                                          *)
(* Scalars are the integers modulo the prime GroupOrder.  A group element   *)
(* is a pair <<a, b>> standing for a*g + b*h, with g the generator and h    *)
(* the commitment key: the two bases are independent, as nobody knows       *)
(* log_g(h).  Byte strings are modelled by the integer they encode.         *)
(* An Option is a sequence: <<>> is None and <<x>> is Some(x).              *)
(***************************************************************************)
EXTENDS Integers, Sequences, FiniteSets, TLC

(***************************************************************************)
(* Bounds of the model.                                                    *)
(***************************************************************************)
\* the largest committee explored
MaxMembers == 3
\* the longest list of peer items handed to one transition
MaxItems == 2
\* the seeds of the random number generator explored: 0..MaxSeed
MaxSeed == 1

(***************************************************************************)
(* traits.rs: Scalar and PrimeGroupElement.                                 *)
(***************************************************************************)
\* the order of the group, a prime larger than every member index
GroupOrder == 5

ScalarSet == 0 .. (GroupOrder - 1)

\* byte strings: the canonical encodings 0..GroupOrder-1 and one encoding
\* that is out of range
NonCanonical == GroupOrder
BytesSet == 0 .. GroupOrder

None == <<>>
Some(x) == <<x>>
IsSome(o) == Len(o) = 1
Unwrap(o) == o[1]

SAdd(a, b) == (a + b) % GroupOrder
SMul(a, b) == (a * b) % GroupOrder

from_u64(x) == x % GroupOrder
scalar_to_bytes(s) == s
scalar_from_bytes(b) == IF b < GroupOrder THEN Some(b) ELSE None
one == 1 % GroupOrder

generator == <<1, 0>>
zero == <<0, 0>>
GAdd(P, R) == <<SAdd(P[1], R[1]), SAdd(P[2], R[2])>>
GMul(P, s) == <<SMul(P[1], s), SMul(P[2], s)>>

\* ScalarExp::next called k times on x.exp_iter(): the items yielded
RECURSIVE ScalarExpTake(_, _, _)
ScalarExpTake(x, next_exp_x, k) ==
    IF k = 0 THEN <<>>
    ELSE <<next_exp_x>> \o ScalarExpTake(x, SMul(next_exp_x, x), k - 1)

exp_iter_take(x, k) == ScalarExpTake(x, one, k)

\* a faulty variant of exp_iter: the first item yielded is x
exp_iter_unstarted(self) == [x |-> self, next_exp_x |-> self]

\* Scalar::exp_iter: the iterator over the powers of self
exp_iter(self) == [x |-> self, next_exp_x |-> one]

\* ScalarExp::next: the item returned and the iterator it leaves
ScalarExp_next(self) ==
    [ item |-> Some(self.next_exp_x),
      iterator |-> [self EXCEPT !.next_exp_x = SMul(self.next_exp_x, self.x)] ]

Min(a, b) == IF a < b THEN a ELSE b

\* sum of scalars[i] * points[i] over the zipped sequences
RECURSIVE MultiscalarFrom(_, _, _)
MultiscalarFrom(scalars, points, i) ==
    IF i > Min(Len(scalars), Len(points)) THEN zero
    ELSE GAdd(GMul(points[i], scalars[i]), MultiscalarFrom(scalars, points, i + 1))

vartime_multiscalar_multiplication(scalars, points) ==
    MultiscalarFrom(scalars, points, 1)


(***************************************************************************)
(* polynomial.rs (not among the sources): a polynomial is the sequence of   *)
(* its coefficients, lowest degree first; evaluation by Horner's rule.      *)
(***************************************************************************)
RECURSIVE HornerFrom(_, _, _)
HornerFrom(coeffs, x, i) ==
    IF i > Len(coeffs) THEN 0
    ELSE SAdd(coeffs[i], SMul(x, HornerFrom(coeffs, x, i + 1)))

evaluate(coeffs, x) == HornerFrom(coeffs, x, 1)

\* Polynomial::random(rng, degree): degree + 1 scalars drawn from the
\* generator; rng is the pair <<seed, stream>> and the k-th draw of a stream
\* is a fixed function of the seed
RngDraw(rng, k) == (rng[1] * (k + 1) + rng[2] + k * k) % GroupOrder

Polynomial_random(rng, degree) == [k \in 1 .. (degree + 1) |-> RngDraw(rng, k)]

(***************************************************************************)
(* procedure_keys.rs and cryptography/elgamal (the latter not among the     *)
(* sources): communication keys and hybrid encryption.  A ciphertext is     *)
(* the header e1 = g^r, the symmetric key pk^r its payload was sealed       *)
(* under, and the payload; opening it with another key yields bytes that    *)
(* decode to no scalar.                                                     *)
(***************************************************************************)
\* the communication secret key of member i (MemberCommunicationKey::new)
CommSk(i) == i % GroupOrder

to_public(sk) == GMul(generator, sk)

\* PrimeGroupElement::to_bytes (its implementations are not among the
\* sources): a canonical encoding of fixed length, the element's number
\* written in EncodingSize digits below ByteValues, lowest digit first
EncodingSize == 3
ByteValues == 3

RECURSIVE Digits(_, _)
Digits(v, k) == IF k = 0 THEN <<>> ELSE <<v % ByteValues>> \o Digits(v \div ByteValues, k - 1)

group_to_bytes(P) == Digits(P[1] * GroupOrder + P[2], EncodingSize)

\* u8::cmp
byte_cmp(s, o) == IF s < o THEN "Less" ELSE IF s > o THEN "Greater" ELSE "Equal"

\* a faulty variant of the loop of cmp: it does not leave at the first
\* pair of bytes that differ
RECURSIVE CmpLoop_unbroken(_, _, _, _)
CmpLoop_unbroken(self_bytes, other_bytes, i, ordering) ==
    IF i > Min(Len(self_bytes), Len(other_bytes)) THEN ordering
    ELSE CmpLoop_unbroken(self_bytes, other_bytes, i + 1,
                          byte_cmp(self_bytes[i], other_bytes[i]))

\* Ord::cmp, lines 31-37: the loop over the zipped bytes, from pair i
RECURSIVE CmpLoop(_, _, _, _)
CmpLoop(self_bytes, other_bytes, i, ordering) ==
    IF i > Min(Len(self_bytes), Len(other_bytes)) THEN ordering
    ELSE LET next == byte_cmp(self_bytes[i], other_bytes[i])
         IN  IF next # "Equal" THEN next
             ELSE CmpLoop(self_bytes, other_bytes, i + 1, next)

\* Ord::cmp for MemberCommunicationPublicKey
cmp(self, other) == CmpLoop(group_to_bytes(self), group_to_bytes(other), 1, "Equal")

\* PartialOrd::partial_cmp for MemberCommunicationPublicKey
partial_cmp(self, other) == Some(cmp(self, other))

\* the ephemeral scalar of an encryption, never zero
EphemeralDraw(rng, k) == 1 + (RngDraw(rng, k) % (GroupOrder - 1))

hybrid_encrypt(pk, message, r) ==
    [e1 |-> GMul(generator, r), sealed |-> GMul(pk, r), bytes |-> message]

recover_symmetric_key(sk, ciphertext) == GMul(ciphertext.e1, sk)

\* SymmetricKey::process: open the payload under a symmetric key
symmetric_open(key, ciphertext) ==
    IF key = ciphertext.sealed THEN ciphertext.bytes ELSE NonCanonical

hybrid_decrypt(sk, ciphertext) ==
    symmetric_open(recover_symmetric_key(sk, ciphertext), ciphertext)

\* MemberCommunicationKey::decrypt_shares on the indexed shares
\* <<recipient, first ciphertext, second ciphertext>>
decrypt_shares(sk, shares) ==
    << scalar_from_bytes(hybrid_decrypt(sk, shares[2])),
       scalar_from_bytes(hybrid_decrypt(sk, shares[3])) >>

(***************************************************************************)
(* cryptography/dl_equality (not among the sources) and                    *)
(* cryptography/correct_hybrid_decryption_key/zkp.rs.  A proof is the       *)
(* statement it was made for and whether the prover's witness satisfied it  *)
(* (soundness: no proof of a false statement verifies).                     *)
(***************************************************************************)
DleqZkp_generate(base_1, base_2, point_1, point_2, dlog) ==
    [ statement |-> <<base_1, base_2, point_1, point_2>>,
      sound |-> point_1 = GMul(base_1, dlog) /\ point_2 = GMul(base_2, dlog) ]

DleqZkp_verify(proof, base_1, base_2, point_1, point_2) ==
    proof.sound /\ proof.statement = <<base_1, base_2, point_1, point_2>>

\* a faulty variant of the prover: the two bases exchanged
Zkp_generate_exchanged(c, pk, symmetric_key, sk) ==
    DleqZkp_generate(c.e1, generator, pk, symmetric_key, sk)

Zkp_generate(c, pk, symmetric_key, sk) ==
    DleqZkp_generate(generator, c.e1, pk, symmetric_key, sk)

\* a faulty variant of the verifier: the two points exchanged
Zkp_verify_exchanged(proof, c, symmetric_key, pk) ==
    DleqZkp_verify(proof, generator, c.e1, symmetric_key, pk)

Zkp_verify(proof, c, symmetric_key, pk) ==
    DleqZkp_verify(proof, generator, c.e1, pk, symmetric_key)

\* a faulty variant of the loop of from_participants: each share replaces
\* the key instead of being added to it
RECURSIVE SumFrom_replacing(_, _, _)
SumFrom_replacing(pks, k, i) ==
    IF i > Len(pks) THEN k ELSE SumFrom_replacing(pks, pks[i], i + 1)

\* MasterPublicKey::from_participants: pks[0] plus the rest, in order
RECURSIVE SumFrom(_, _, _)
SumFrom(pks, k, i) ==
    IF i > Len(pks) THEN k ELSE SumFrom(pks, GAdd(k, pks[i]), i + 1)

from_participants(pks) == SumFrom(pks, pks[1], 2)

(***************************************************************************)
(* dkg/broadcast.rs (not among the sources): the proof carried by a         *)
(* round-2 complaint.  The accuser reveals the two symmetric keys and       *)
(* proves that each is the one its communication key recovers.              *)
(***************************************************************************)
ProofOfMisbehaviour_generate(indexed_shares, sk) ==
    LET symm_key_1 == recover_symmetric_key(sk, indexed_shares[2])
        symm_key_2 == recover_symmetric_key(sk, indexed_shares[3])
    IN  [ symm_key_1 |-> symm_key_1,
          symm_key_2 |-> symm_key_2,
          encrypted_shares |-> indexed_shares,
          proof_decryption_1 |->
              Zkp_generate(indexed_shares[2], to_public(sk), symm_key_1, sk),
          proof_decryption_2 |->
              Zkp_generate(indexed_shares[3], to_public(sk), symm_key_2, sk) ]

\* ProofOfMisbehaviour::verify: both decryption proofs verify, and the
\* revealed plaintexts decode to no scalar or fail the share check
ProofOfMisbehaviour_verify(proof, complaining_pk, fetched_data, h, plaintiff_index, threshold) ==
    /\ Zkp_verify(proof.proof_decryption_1, fetched_data.indexed_shares[2],
                  proof.symm_key_1, complaining_pk)
    /\ Zkp_verify(proof.proof_decryption_2, fetched_data.indexed_shares[3],
                  proof.symm_key_2, complaining_pk)
    /\ LET plaintext_1 == scalar_from_bytes(
               symmetric_open(proof.symm_key_1, fetched_data.indexed_shares[2]))
           plaintext_2 == scalar_from_bytes(
               symmetric_open(proof.symm_key_2, fetched_data.indexed_shares[3]))
       IN  \/ ~IsSome(plaintext_1)
           \/ ~IsSome(plaintext_2)
           \/ GAdd(GMul(h, Unwrap(plaintext_1)),
                   GMul(generator, Unwrap(plaintext_2)))
              # vartime_multiscalar_multiplication(
                    exp_iter_take(from_u64(plaintiff_index), threshold + 1),
                    fetched_data.committed_coeffs)

(***************************************************************************)
(* dkg/committee.rs: the environment and the phase driver.                  *)
(***************************************************************************)
\* the commitment key h, independent of the generator
CommitmentKeyH == <<0, 1>>

\* a faulty variant of the assertions: half the members suffice
EnvironmentAccepted_inclusive(threshold, nr_members) ==
    /\ threshold <= nr_members
    /\ threshold >= nr_members \div 2

\* Environment::init: the two assertions
EnvironmentAccepted(threshold, nr_members) ==
    /\ threshold <= nr_members
    /\ threshold > nr_members \div 2

Environment_init(threshold, nr_members, commitment_key) ==
    [ threshold |-> threshold,
      nr_members |-> nr_members,
      commitment_key |-> commitment_key ]

\* init: the two assertions on the committee and the index
InitAccepted(environment, committee_pks, my) ==
    /\ Len(committee_pks) = environment.nr_members
    /\ my <= environment.nr_members

\* init, lines 107-112: apub = g * ai and coeff_comm = h * bi + apub
InitApubs(pshek) == [k \in 1 .. Len(pshek) |-> GMul(generator, pshek[k])]

\* a faulty variant of the commitments: the two polynomials exchanged
InitCoeffComms_exchanged(environment, pcomm, pshek) ==
    [k \in 1 .. Min(Len(pshek), Len(pcomm)) |->
        GAdd(GMul(environment.commitment_key, pshek[k]),
             GMul(generator, pcomm[k]))]

InitCoeffComms(environment, pcomm, pshek) ==
    [k \in 1 .. Min(Len(pshek), Len(pcomm)) |->
        GAdd(GMul(environment.commitment_key, pcomm[k]),
             GMul(generator, pshek[k]))]

\* a faulty variant of the loop: the member's own position is not skipped
RECURSIVE InitEncryptedShares_unskipped(_, _, _, _, _, _, _)
InitEncryptedShares_unskipped(rng, environment, pcomm, pshek, committee_pks, my, i) ==
    IF i >= environment.nr_members THEN <<>>
    ELSE LET idx == from_u64(i + 1)
             share_comm == evaluate(pcomm, idx)
             share_shek == evaluate(pshek, idx)
             pk == committee_pks[i + 1]
             ecomm == hybrid_encrypt(pk, scalar_to_bytes(share_comm),
                                     EphemeralDraw(rng, 2 * i))
             eshek == hybrid_encrypt(pk, scalar_to_bytes(share_shek),
                                     EphemeralDraw(rng, 2 * i + 1))
         IN  << <<i + 1, ecomm, eshek>> >>
             \o InitEncryptedShares_unskipped(rng, environment, pcomm, pshek,
                                              committee_pks, my, i + 1)

\* init, lines 117-133: the loop over i in 0..nr_members, from position i
RECURSIVE InitEncryptedShares(_, _, _, _, _, _, _)
InitEncryptedShares(rng, environment, pcomm, pshek, committee_pks, my, i) ==
    IF i >= environment.nr_members THEN <<>>
    ELSE IF i = my - 1
    THEN InitEncryptedShares(rng, environment, pcomm, pshek, committee_pks, my, i + 1)
    ELSE LET idx == from_u64(i + 1)
             share_comm == evaluate(pcomm, idx)
             share_shek == evaluate(pshek, idx)
             pk == committee_pks[i + 1]
             ecomm == hybrid_encrypt(pk, scalar_to_bytes(share_comm),
                                     EphemeralDraw(rng, 2 * i))
             eshek == hybrid_encrypt(pk, scalar_to_bytes(share_shek),
                                     EphemeralDraw(rng, 2 * i + 1))
         IN  << <<i + 1, ecomm, eshek>> >>
             \o InitEncryptedShares(rng, environment, pcomm, pshek,
                                    committee_pks, my, i + 1)

\* the two polynomials init draws from rng
InitPcomm(rng, environment) ==
    Polynomial_random(<<rng[1], rng[2]>>, environment.threshold)
InitPshek(rng, environment) ==
    Polynomial_random(<<rng[1], rng[2] + 1>>, environment.threshold)

\* a faulty variant of init: the qualified set starts all 0
init_unqualified(rng, environment, secret_key, committee_pks, my) ==
    LET pcomm == InitPcomm(rng, environment)
        pshek == InitPshek(rng, environment)
    IN  [ state |->
            [ index |-> my,
              environment |-> environment,
              communication_sk |-> secret_key,
              committed_coefficients |-> InitApubs(pshek),
              final_share |-> None,
              public_share |-> None,
              indexed_received_shares |-> None,
              indexed_committed_shares |-> None,
              qualified_set |-> [k \in 1 .. environment.nr_members |-> 0] ],
          broadcast |->
            [ committed_coefficients |-> InitCoeffComms(environment, pcomm, pshek),
              encrypted_shares |->
                  InitEncryptedShares(rng, environment, pcomm, pshek,
                                      committee_pks, my, 0) ] ]

\* init: the Phase1 state and Broadcast1
init(rng, environment, secret_key, committee_pks, my) ==
    LET pcomm == InitPcomm(rng, environment)
        pshek == InitPshek(rng, environment)
    IN  [ state |->
            [ index |-> my,
              environment |-> environment,
              communication_sk |-> secret_key,
              committed_coefficients |-> InitApubs(pshek),
              final_share |-> None,
              public_share |-> None,
              indexed_received_shares |-> None,
              indexed_committed_shares |-> None,
              qualified_set |-> [k \in 1 .. environment.nr_members |-> 1] ],
          broadcast |->
            [ committed_coefficients |-> InitCoeffComms(environment, pcomm, pshek),
              encrypted_shares |->
                  InitEncryptedShares(rng, environment, pcomm, pshek,
                                      committee_pks, my, 0) ] ]

\* MembersFetchedState1::get_index
get_index(fetched_data) == fetched_data.indexed_shares[1]

\* a faulty variant of the share check: the two decrypted scalars exchanged
ShareCheckFails_exchanged(environment, index, comm, shek, committed_coeffs) ==
    LET index_pow == exp_iter_take(from_u64(index), environment.threshold + 1)
        check_element == GAdd(GMul(environment.commitment_key, shek),
                              GMul(generator, comm))
        multi_scalar == vartime_multiscalar_multiplication(index_pow, committed_coeffs)
    IN  check_element # multi_scalar

\* to_phase_2, lines 190-207: whether check_element != multi_scalar
ShareCheckFails(environment, index, comm, shek, committed_coeffs) ==
    LET index_pow == exp_iter_take(from_u64(index), environment.threshold + 1)
        check_element == GAdd(GMul(environment.commitment_key, comm),
                              GMul(generator, shek))
        multi_scalar == vartime_multiscalar_multiplication(index_pow, committed_coeffs)
    IN  check_element # multi_scalar

\* a faulty variant of the loop body: an item that fails to decrypt is
\* passed over without a complaint
Phase2Item_lenient(state, environment, acc, fetched_data) ==
    LET dec == decrypt_shares(state.communication_sk, fetched_data.indexed_shares)
        slot == fetched_data.sender_index
        proof == ProofOfMisbehaviour_generate(fetched_data.indexed_shares,
                                              state.communication_sk)
    IN  IF IsSome(dec[1]) /\ IsSome(dec[2])
        THEN LET comm == Unwrap(dec[1])
                 shek == Unwrap(dec[2])
                 recorded == [acc.decrypted_shares EXCEPT ![slot] =
                                 Some(<<comm, shek, fetched_data.committed_coeffs>>)]
             IN  IF ShareCheckFails(environment, state.index, comm, shek,
                                    fetched_data.committed_coeffs)
                 THEN [ acc EXCEPT
                          !.decrypted_shares = recorded,
                          !.qualified_set = [@ EXCEPT ![slot] = 0],
                          !.misbehaving_parties =
                              Append(@, <<slot, "ShareValidityFailed", proof>>) ]
                 ELSE [acc EXCEPT !.decrypted_shares = recorded]
        ELSE acc

\* to_phase_2, lines 185-233: one item of members_state, past the index test
Phase2Item(state, environment, acc, fetched_data) ==
    LET dec == decrypt_shares(state.communication_sk, fetched_data.indexed_shares)
        slot == fetched_data.sender_index
        proof == ProofOfMisbehaviour_generate(fetched_data.indexed_shares,
                                              state.communication_sk)
    IN  IF IsSome(dec[1]) /\ IsSome(dec[2])
        THEN LET comm == Unwrap(dec[1])
                 shek == Unwrap(dec[2])
                 recorded == [acc.decrypted_shares EXCEPT ![slot] =
                                 Some(<<comm, shek, fetched_data.committed_coeffs>>)]
             IN  IF ShareCheckFails(environment, state.index, comm, shek,
                                    fetched_data.committed_coeffs)
                 THEN [ acc EXCEPT
                          !.decrypted_shares = recorded,
                          !.qualified_set = [@ EXCEPT ![slot] = 0],
                          !.misbehaving_parties =
                              Append(@, <<slot, "ShareValidityFailed", proof>>) ]
                 ELSE [acc EXCEPT !.decrypted_shares = recorded]
        ELSE [ acc EXCEPT
                 !.qualified_set = [@ EXCEPT ![slot] = 0],
                 !.misbehaving_parties =
                     Append(@, <<slot, "ScalarOutOfBounds", proof>>) ]

\* a faulty variant of the loop: an item addressed to another member is
\* skipped instead of ending the transition
RECURSIVE Phase2Loop_skipping(_, _, _, _, _)
Phase2Loop_skipping(state, environment, members_state, i, acc) ==
    IF i > Len(members_state) THEN acc
    ELSE IF get_index(members_state[i]) # state.index
    THEN Phase2Loop_skipping(state, environment, members_state, i + 1, acc)
    ELSE Phase2Loop_skipping(state, environment, members_state, i + 1,
                             Phase2Item(state, environment, acc, members_state[i]))

\* a faulty variant of the loop: it ends at the first item that earns a
\* complaint
RECURSIVE Phase2Loop_halting(_, _, _, _, _)
Phase2Loop_halting(state, environment, members_state, i, acc) ==
    IF i > Len(members_state) THEN acc
    ELSE IF get_index(members_state[i]) # state.index
    THEN [acc EXCEPT !.invalid = TRUE]
    ELSE LET after == Phase2Item(state, environment, acc, members_state[i])
         IN  IF after.misbehaving_parties # acc.misbehaving_parties THEN after
             ELSE Phase2Loop_halting(state, environment, members_state, i + 1, after)

\* to_phase_2, lines 180-234: the loop over members_state, from item i
RECURSIVE Phase2Loop(_, _, _, _, _)
Phase2Loop(state, environment, members_state, i, acc) ==
    IF i > Len(members_state) THEN acc
    ELSE IF get_index(members_state[i]) # state.index
    THEN [acc EXCEPT !.invalid = TRUE]
    ELSE Phase2Loop(state, environment, members_state, i + 1,
                    Phase2Item(state, environment, acc, members_state[i]))

\* a faulty variant of the abort test: a strict comparison
Phase2Abort_strict(misbehaving_parties, environment) ==
    Len(misbehaving_parties) > environment.threshold

\* to_phase_2, line 236
Phase2Abort(misbehaving_parties, environment) ==
    Len(misbehaving_parties) >= environment.threshold

\* to_phase_2: the result, the Phase2 state (on Ok) and the broadcast
to_phase_2(state, environment, members_state) ==
    LET acc == Phase2Loop(state, environment, members_state, 1,
                   [ qualified_set |-> state.qualified_set,
                     misbehaving_parties |-> <<>>,
                     decrypted_shares |->
                         [k \in 1 .. state.environment.nr_members |-> None],
                     invalid |-> FALSE ])
    IN  IF acc.invalid
        THEN [result |-> "FetchedInvalidData", state |-> None, broadcast |-> None]
        ELSE IF Phase2Abort(acc.misbehaving_parties, environment)
        THEN [ result |-> "MisbehaviourHigherThreshold",
               state |-> None,
               broadcast |-> Some([misbehaving_parties |-> acc.misbehaving_parties]) ]
        ELSE [ result |-> "Ok",
               state |-> Some([ state EXCEPT
                                  !.indexed_received_shares = Some(acc.decrypted_shares),
                                  !.qualified_set = acc.qualified_set ]),
               broadcast |->
                   IF acc.misbehaving_parties = <<>> THEN None
                   ELSE Some([misbehaving_parties |-> acc.misbehaving_parties]) ]

\* compute_qualified_set: every accused position is and-ed with 0
RECURSIVE ComplaintsLoop(_, _, _)
ComplaintsLoop(qualified_set, misbehaving_parties, i) ==
    IF i > Len(misbehaving_parties) THEN qualified_set
    ELSE ComplaintsLoop([qualified_set EXCEPT ![misbehaving_parties[i][1]] = 0],
                        misbehaving_parties, i + 1)

\* a faulty variant of the loop over the broadcasts: it ends after the first
BroadcastsLoop_first(qualified_set, broadcast_complaints, i) ==
    IF i > Len(broadcast_complaints) THEN qualified_set
    ELSE ComplaintsLoop(qualified_set, broadcast_complaints[i].misbehaving_parties, 1)

RECURSIVE BroadcastsLoop(_, _, _)
BroadcastsLoop(qualified_set, broadcast_complaints, i) ==
    IF i > Len(broadcast_complaints) THEN qualified_set
    ELSE BroadcastsLoop(
             ComplaintsLoop(qualified_set,
                            broadcast_complaints[i].misbehaving_parties, 1),
             broadcast_complaints, i + 1)

\* a faulty variant: the broadcasts of the other members are not applied
compute_qualified_set_unapplied(qualified_set, broadcast_complaints) ==
    qualified_set

\* a faulty variant: the qualified set rebuilt from the broadcasts alone
compute_qualified_set_rebuilt(qualified_set, broadcast_complaints) ==
    BroadcastsLoop([k \in 1 .. Len(qualified_set) |-> 1], broadcast_complaints, 1)

compute_qualified_set(qualified_set, broadcast_complaints) ==
    BroadcastsLoop(qualified_set, broadcast_complaints, 1)

\* a faulty variant of the abort test: an inclusive comparison
Phase3Abort_inclusive(qualified_set, environment) ==
    Len(qualified_set) <= environment.threshold

\* to_phase_3, line 283
Phase3Abort(qualified_set, environment) ==
    Len(qualified_set) < environment.threshold

\* a faulty variant of to_phase_3: the Phase3 state drops the received shares
to_phase_3_forgetful(state, broadcast_complaints) ==
    LET qualified_set == compute_qualified_set(state.qualified_set, broadcast_complaints)
    IN  IF Phase3Abort(qualified_set, state.environment)
        THEN [result |-> "MisbehaviourHigherThreshold", state |-> None, broadcast |-> None]
        ELSE [ result |-> "Ok",
               state |-> Some([state EXCEPT !.qualified_set = qualified_set,
                                            !.indexed_received_shares = None]),
               broadcast |->
                   Some([committed_coefficients |-> state.committed_coefficients]) ]

to_phase_3(state, broadcast_complaints) ==
    LET qualified_set == compute_qualified_set(state.qualified_set, broadcast_complaints)
    IN  IF Phase3Abort(qualified_set, state.environment)
        THEN [result |-> "MisbehaviourHigherThreshold", state |-> None, broadcast |-> None]
        ELSE [ result |-> "Ok",
               state |-> Some([state EXCEPT !.qualified_set = qualified_set]),
               broadcast |->
                   Some([committed_coefficients |-> state.committed_coefficients]) ]

\* to_phase_4, lines 317-330: whether check_element != multi_scalar
CommitmentCheckFails(state, shek, committed_coefficients) ==
    LET index_pow == exp_iter_take(from_u64(state.index),
                                   state.environment.threshold + 1)
        check_element == GMul(generator, shek)
        multi_scalar == vartime_multiscalar_multiplication(index_pow,
                                                           committed_coefficients)
    IN  check_element # multi_scalar

\* a faulty variant of the loop body: the two recorded scalars exchanged in
\* the Broadcast4 entry
Phase4Item_exchanged(state, received_shares, acc, fetched_commitments) ==
    LET slot == fetched_commitments.sender_index
    IN  IF state.qualified_set[slot] # 0
        THEN IF ~IsSome(received_shares[slot])
             THEN [acc EXCEPT !.panic = TRUE]
             ELSE LET indexed_shares == Unwrap(received_shares[slot])
                  IN  IF CommitmentCheckFails(state, indexed_shares[2],
                              fetched_commitments.committed_coefficients)
                      THEN [ acc EXCEPT !.misbehaving_parties =
                                 Append(@, <<slot, indexed_shares[2], indexed_shares[1]>>) ]
                      ELSE [acc EXCEPT !.honest = [@ EXCEPT ![slot] = 1]]
        ELSE acc

\* a faulty variant of the loop body: the entry of Broadcast4 discloses the
\* member's communication key in place of the first recorded scalar
Phase4Item_disclosing(state, received_shares, acc, fetched_commitments) ==
    LET slot == fetched_commitments.sender_index
    IN  IF state.qualified_set[slot] # 0
        THEN IF ~IsSome(received_shares[slot])
             THEN [acc EXCEPT !.panic = TRUE]
             ELSE LET indexed_shares == Unwrap(received_shares[slot])
                  IN  IF CommitmentCheckFails(state, indexed_shares[2],
                              fetched_commitments.committed_coefficients)
                      THEN [ acc EXCEPT !.misbehaving_parties =
                                 Append(@, <<slot, state.communication_sk,
                                             indexed_shares[2]>>) ]
                      ELSE [acc EXCEPT !.honest = [@ EXCEPT ![slot] = 1]]
        ELSE acc

\* a faulty variant of the loop body: the item of a disqualified sender is
\* checked like any other
Phase4Item_unskipping(state, received_shares, acc, fetched_commitments) ==
    LET slot == fetched_commitments.sender_index
    IN  IF ~IsSome(received_shares[slot])
        THEN [acc EXCEPT !.panic = TRUE]
        ELSE LET indexed_shares == Unwrap(received_shares[slot])
             IN  IF CommitmentCheckFails(state, indexed_shares[2],
                         fetched_commitments.committed_coefficients)
                 THEN [ acc EXCEPT !.misbehaving_parties =
                            Append(@, <<slot, indexed_shares[1], indexed_shares[2]>>) ]
                 ELSE [acc EXCEPT !.honest = [@ EXCEPT ![slot] = 1]]

\* to_phase_4, lines 316-336: one item of fetched_state_3
Phase4Item(state, received_shares, acc, fetched_commitments) ==
    LET slot == fetched_commitments.sender_index
    IN  IF state.qualified_set[slot] # 0
        THEN IF ~IsSome(received_shares[slot])
             THEN [acc EXCEPT !.panic = TRUE]
             ELSE LET indexed_shares == Unwrap(received_shares[slot])
                  IN  IF CommitmentCheckFails(state, indexed_shares[2],
                              fetched_commitments.committed_coefficients)
                      THEN [ acc EXCEPT !.misbehaving_parties =
                                 Append(@, <<slot, indexed_shares[1], indexed_shares[2]>>) ]
                      ELSE [acc EXCEPT !.honest = [@ EXCEPT ![slot] = 1]]
        ELSE acc

\* to_phase_4, lines 314-337: the loop over fetched_state_3, from item i
RECURSIVE Phase4Loop(_, _, _, _, _)
Phase4Loop(state, received_shares, fetched_state_3, i, acc) ==
    IF i > Len(fetched_state_3) \/ acc.panic THEN acc
    ELSE Phase4Loop(state, received_shares, fetched_state_3, i + 1,
                    Phase4Item(state, received_shares, acc, fetched_state_3[i]))

\* to_phase_4, lines 309-337: honest and misbehaving_parties after the loop
Phase4Acc(state, fetched_state_3) ==
    Phase4Loop(state, Unwrap(state.indexed_received_shares), fetched_state_3, 1,
               [ honest |-> [ k \in 1 .. state.environment.nr_members |->
                                IF k = state.index THEN 1 ELSE 0 ],
                 misbehaving_parties |-> <<>>,
                 panic |-> FALSE ])

RECURSIVE SumSeq(_, _)
SumSeq(seq, i) == IF i > Len(seq) THEN 0 ELSE seq[i] + SumSeq(seq, i + 1)

\* a faulty variant of the abort test: an inclusive comparison
Phase4Abort_inclusive(honest, environment) ==
    SumSeq(honest, 1) <= environment.threshold

\* to_phase_4, line 345
Phase4Abort(honest, environment) ==
    SumSeq(honest, 1) < environment.threshold

\* a faulty variant of to_phase_4: the senders named in Broadcast4 are
\* disqualified in the state returned
to_phase_4_disqualifying(state, fetched_state_3) ==
    IF ~IsSome(state.indexed_received_shares)
    THEN [result |-> "Panic", state |-> None, broadcast |-> None]
    ELSE
    LET acc == Phase4Acc(state, fetched_state_3)
        broadcast == IF acc.misbehaving_parties = <<>> THEN None
                     ELSE Some([misbehaving_parties |-> acc.misbehaving_parties])
    IN  IF acc.panic
        THEN [result |-> "Panic", state |-> None, broadcast |-> None]
        ELSE IF Phase4Abort(acc.honest, state.environment)
        THEN [ result |-> "MisbehaviourHigherThreshold",
               state |-> None, broadcast |-> broadcast ]
        ELSE [ result |-> "Ok",
               state |-> Some([state EXCEPT !.qualified_set =
                                  ComplaintsLoop(@, acc.misbehaving_parties, 1)]),
               broadcast |-> broadcast ]

\* to_phase_4: a result of "Panic" is an expect() that failed
to_phase_4(state, fetched_state_3) ==
    IF ~IsSome(state.indexed_received_shares)
    THEN [result |-> "Panic", state |-> None, broadcast |-> None]
    ELSE
    LET acc == Phase4Acc(state, fetched_state_3)
        broadcast == IF acc.misbehaving_parties = <<>> THEN None
                     ELSE Some([misbehaving_parties |-> acc.misbehaving_parties])
    IN  IF acc.panic
        THEN [result |-> "Panic", state |-> None, broadcast |-> None]
        ELSE IF Phase4Abort(acc.honest, state.environment)
        THEN [ result |-> "MisbehaviourHigherThreshold",
               state |-> None, broadcast |-> broadcast ]
        ELSE [result |-> "Ok", state |-> Some(state), broadcast |-> broadcast]

(***************************************************************************)
(* The ceremony around one member: the committee, what the honest peers     *)
(* publish, and what a faulty peer or a faulty transport may hand over.     *)
(***************************************************************************)
Committee(nr_members) == [i \in 1 .. nr_members |-> to_public(CommSk(i))]

\* the generator state member i starts from
MemberRng(seed, i) == <<seed, 2 * i>>

\* what every member computes in init, by member index
CeremonyInit(seed, environment) ==
    [ i \in 1 .. environment.nr_members |->
        init(MemberRng(seed, i), environment, CommSk(i),
             Committee(environment.nr_members), i) ]

\* the entry of a Broadcast1 addressed to recipient j, as an Option
RECURSIVE SharesForFrom(_, _, _)
SharesForFrom(encrypted_shares, j, i) ==
    IF i > Len(encrypted_shares) THEN None
    ELSE IF encrypted_shares[i][1] = j THEN Some(encrypted_shares[i])
    ELSE SharesForFrom(encrypted_shares, j, i + 1)

\* the round-1 item of sender d as fetched by member my, from d's Broadcast1
HonestItem(members, d, my) ==
    [ sender_index |-> d,
      indexed_shares |->
          Unwrap(SharesForFrom(members[d].broadcast.encrypted_shares, my, 1)),
      committed_coeffs |-> members[d].broadcast.committed_coefficients ]

ItemKinds == {"Honest", "ZeroCoeffs", "BadShare", "NonCanonical", "NonCanonicalSecond",
              "WrongRecipient"}

\* an item altered in one way
Tamper(item, kind, nr_members) ==
    CASE kind = "Honest" -> item
      [] kind = "ZeroCoeffs" ->
            [item EXCEPT !.committed_coeffs =
                [k \in 1 .. Len(item.committed_coeffs) |-> zero]]
      [] kind = "BadShare" ->
            [item EXCEPT !.indexed_shares[3].bytes = SAdd(@, 1)]
      [] kind = "NonCanonical" ->
            [item EXCEPT !.indexed_shares[2].bytes = NonCanonical]
      [] kind = "NonCanonicalSecond" ->
            [item EXCEPT !.indexed_shares[3].bytes = NonCanonical]
      [] kind = "WrongRecipient" ->
            [item EXCEPT !.indexed_shares[1] = (@ % nr_members) + 1]

Others(members, my) == (DOMAIN members) \ {my}

Lowest(S) == CHOOSE x \in S : \A y \in S : x <= y
LowestOf(S) == {x \in S : \A y \in S : x <= y}

\* the round-1 items that may reach member my: each peer's item, altered or
\* not, and the lowest peer's item relabelled as sent by my itself
Round1Items(members, my, kinds) ==
    { Tamper(HonestItem(members, d, my), kind, Len(members)) :
        d \in Others(members, my), kind \in kinds }
    \cup
    { [Tamper(HonestItem(members, d, my), kind, Len(members))
          EXCEPT !.sender_index = my] :
        d \in LowestOf(Others(members, my)),
        kind \in kinds \cap {"Honest", "ZeroCoeffs"} }

\* the sequences over S of length at most n
SeqsUpTo(S, n) == UNION {[1 .. k -> S] : k \in 0 .. n}

\* what a broadcast channel delivers to my in round 1: at most one item per
\* peer, in the order of the senders; choice[d] is "Absent" or a kind
RECURSIVE Round1DeliveryFrom(_, _, _, _)
Round1DeliveryFrom(members, my, choice, d) ==
    IF d > Len(members) THEN <<>>
    ELSE IF d = my \/ choice[d] = "Absent"
    THEN Round1DeliveryFrom(members, my, choice, d + 1)
    ELSE <<Tamper(HonestItem(members, d, my), choice[d], Len(members))>>
         \o Round1DeliveryFrom(members, my, choice, d + 1)

Round1Deliveries(members, my, kinds) ==
    { Round1DeliveryFrom(members, my, choice, 1) :
        choice \in [DOMAIN members -> kinds \cup {"Absent"}] }

\* a round-2 broadcast of accuser c against accused a, made from the item x
\* that a addressed to c
Accusation(c, a, x) ==
    LET dec == decrypt_shares(CommSk(c), x.indexed_shares)
        reason == IF IsSome(dec[1]) /\ IsSome(dec[2])
                  THEN "ShareValidityFailed" ELSE "ScalarOutOfBounds"
    IN  [ misbehaving_parties |->
            << <<a, reason, ProofOfMisbehaviour_generate(x.indexed_shares, CommSk(c))>> >> ]

\* the accuser the model lets complain about a: the lowest member that is
\* neither a nor my, or the lowest member other than a when there is none
AccuserOf(members, my, a) ==
    IF (DOMAIN members) \ {a, my} = {}
    THEN Lowest((DOMAIN members) \ {a})
    ELSE Lowest((DOMAIN members) \ {a, my})

\* the round-2 broadcasts that may reach member my besides its own: for an
\* accused a, an accusation over the shares a dealt honestly (a false one)
\* or over altered shares that fail the check (a genuine one)
Round2Broadcasts(members, my, accused, kinds) ==
    { Accusation(AccuserOf(members, my, a), a,
                 Tamper(HonestItem(members, a, AccuserOf(members, my, a)),
                        kind, Len(members))) :
        a \in {x \in accused : Len(members) > 1}, kind \in kinds }

\* the round-3 items that may reach member my: each member's plain
\* coefficients as computed in init, or generators in their place
Round3Items(members, kinds) ==
    { [ sender_index |-> a,
        committed_coefficients |->
            IF kind = "Honest" THEN members[a].state.committed_coefficients
            ELSE [k \in 1 .. Len(members[a].state.committed_coefficients) |-> generator] ] :
        a \in DOMAIN members, kind \in kinds }

\* what a broadcast channel delivers to my in round 3: at most one item per
\* peer, in the order of the senders
RECURSIVE Round3DeliveryFrom(_, _, _, _)
Round3DeliveryFrom(members, my, choice, d) ==
    IF d > Len(members) THEN <<>>
    ELSE IF d = my \/ choice[d] = "Absent"
    THEN Round3DeliveryFrom(members, my, choice, d + 1)
    ELSE << CHOOSE x \in Round3Items(members, {choice[d]}) : x.sender_index = d >>
         \o Round3DeliveryFrom(members, my, choice, d + 1)

Round3Deliveries(members, my, kinds) ==
    { Round3DeliveryFrom(members, my, choice, 1) :
        choice \in [DOMAIN members -> kinds \cup {"Absent"}] }

(***************************************************************************)
(* One member's driver as a state machine.                                  *)
(*   pc         where the member is: Start, Initialise, Phase1 .. Phase4,   *)
(*              Out (a transition returned Err) or Aborted (a panic)        *)
(*   env        Some(Environment) once Environment::init returned           *)
(*   me         Some(IndividualState) while the member holds a phase value  *)
(*   seed       the seed of the ceremony's random number generators         *)
(*   members    what each member of the committee computed in init          *)
(*   input      the list handed to the last transition                      *)
(*   prev       the member's state before the last transition               *)
(*   result     what the last transition returned: Ok, an error, Panic      *)
(*   broadcast  the broadcast the last transition returned                  *)
(*   op         the last operation that ran                                 *)
(* and, for a ceremony of several members over a broadcast channel:         *)
(*   parties    by member index: where the member is, its state, the        *)
(*              result and the broadcast of each of its transitions, and    *)
(*              the master public key once it finalised                     *)
(*   fault      the one deviation of the ceremony: none, a dealer sending   *)
(*              one recipient an altered share, or a member broadcasting a  *)
(*              complaint over shares that were dealt correctly             *)
(***************************************************************************)
VARIABLES pc, env, me, seed, members, input, prev, result, broadcast, op,
          parties, fault

vars == <<pc, env, me, seed, members, input, prev, result, broadcast, op,
          parties, fault>>

NoFault == [member |-> 0, kind |-> "None", victim |-> 0]

Init ==
    /\ pc = "Start"
    /\ env = None
    /\ me = None
    /\ seed \in 0 .. MaxSeed
    /\ members = <<>>
    /\ input = <<>>
    /\ prev = None
    /\ result = "None"
    /\ broadcast = None
    /\ op = "None"
    /\ parties = <<>>
    /\ fault = NoFault

\* Environment::init(threshold, nr_members, ck)
EnvInit ==
    /\ pc = "Start"
    /\ \E threshold \in 0 .. MaxMembers, nr_members \in 0 .. MaxMembers :
          /\ input' = <<threshold, nr_members>>
          /\ IF EnvironmentAccepted(threshold, nr_members)
             THEN /\ env' = Some(Environment_init(threshold, nr_members, CommitmentKeyH))
                  /\ pc' = "Initialise"
                  /\ result' = "Ok"
             ELSE /\ env' = None
                  /\ pc' = "Aborted"
                  /\ result' = "Panic"
    /\ op' = "Environment::init"
    /\ UNCHANGED <<me, seed, members, prev, broadcast, parties, fault>>

\* DistributedKeyGeneration::init(rng, environment, sk, committee_pks, my)
DriverInit ==
    /\ pc = "Initialise"
    /\ LET environment == Unwrap(env)
       IN  \E my \in 1 .. (environment.nr_members + 1),
              pks \in {Committee(environment.nr_members),
                       Committee(environment.nr_members + 1)} :
              /\ input' = <<my, Len(pks)>>
              /\ IF InitAccepted(environment, pks, my)
                 THEN LET r == init(MemberRng(seed, my), environment, CommSk(my), pks, my)
                      IN  /\ me' = Some(r.state)
                          /\ broadcast' = Some(r.broadcast)
                          /\ members' = CeremonyInit(seed, environment)
                          /\ pc' = "Phase1"
                          /\ result' = "Ok"
                 ELSE /\ me' = None
                      /\ broadcast' = None
                      /\ members' = <<>>
                      /\ pc' = "Aborted"
                      /\ result' = "Panic"
    /\ prev' = None
    /\ op' = "init"
    /\ UNCHANGED <<env, seed, parties, fault>>

\* the two ways the crate is built: with overflow checks (debug) or with
\* wrapping arithmetic (release)
Builds == {"debug", "release"}

\* init, line 120: my - 1 on usize overflows when my is 0
InitOverflows(environment, my) == my = 0 /\ environment.nr_members > 0

\* init with every index from 0 to nr_members + 1 and a committee one key
\* short, exact or one key long.  With my = 0 both assertions pass; the
\* subtraction of line 120 then panics in a debug build and wraps to
\* usize::MAX in a release build, which no i < nr_members equals, so that
\* every recipient gets a share
DriverInitRich ==
    /\ pc = "Initialise"
    /\ LET environment == Unwrap(env)
       IN  \E my \in 0 .. (environment.nr_members + 1),
              len \in {environment.nr_members - 1, environment.nr_members,
                       environment.nr_members + 1},
              build \in Builds :
              LET pks == Committee(len)
              IN  /\ input' = <<my, Len(pks)>>
                  /\ IF /\ InitAccepted(environment, pks, my)
                        /\ ~(InitOverflows(environment, my) /\ build = "debug")
                     THEN LET r == init(MemberRng(seed, my), environment, CommSk(my), pks, my)
                          IN  /\ me' = Some(r.state)
                              /\ broadcast' = Some(r.broadcast)
                              /\ members' = CeremonyInit(seed, environment)
                              /\ pc' = "Phase1"
                              /\ result' = "Ok"
                     ELSE /\ me' = None
                          /\ broadcast' = None
                          /\ members' = <<>>
                          /\ pc' = "Aborted"
                          /\ result' = "Panic"
    /\ prev' = None
    /\ op' = "init"
    /\ UNCHANGED <<env, seed, parties, fault>>

\* a faulty variant: the member goes on whatever the transition returned
PcAfter_regardless(r, next) == next

\* where a transition leaves the member
PcAfter(r, next) ==
    IF r = "Ok" THEN next ELSE IF r = "Panic" THEN "Aborted" ELSE "Out"

\* the effect of the transition called name, which returned r from the
\* phase value me
Advance(name, r, next) ==
    /\ op' = name
    /\ result' = r.result
    /\ broadcast' = r.broadcast
    /\ prev' = me
    /\ me' = r.state
    /\ pc' = PcAfter(r.result, next)
    /\ UNCHANGED <<env, seed, members, parties, fault>>

\* Phase1::to_phase_2(environment, members_state, rng)
ToPhase2(inputs) ==
    /\ pc = "Phase1"
    /\ \E members_state \in inputs :
          /\ input' = members_state
          /\ Advance("to_phase_2",
                     to_phase_2(Unwrap(me), Unwrap(me).environment, members_state),
                     "Phase2")

\* Phase2::to_phase_3(broadcast_complaints)
ToPhase3(inputs) ==
    /\ pc = "Phase2"
    /\ \E broadcast_complaints \in inputs :
          /\ input' = broadcast_complaints
          /\ Advance("to_phase_3", to_phase_3(Unwrap(me), broadcast_complaints), "Phase3")

\* Phase3::to_phase_4(fetched_state_3)
ToPhase4(inputs) ==
    /\ pc = "Phase3"
    /\ \E fetched_state_3 \in inputs :
          /\ input' = fetched_state_3
          /\ Advance("to_phase_4", to_phase_4(Unwrap(me), fetched_state_3), "Phase4")

\* the member's index, once it holds a state
My == Unwrap(me).index

\* the member's own round-2 broadcast, when the last transition made one
OwnBroadcast2 == IF IsSome(broadcast) THEN {Unwrap(broadcast)} ELSE {}

\* every list of at most MaxItems round-1 items, in any order, with repeats
ToPhase2Rich ==
    ToPhase2(SeqsUpTo(Round1Items(members, My, ItemKinds), MaxItems))

\* what a channel delivers: one item per peer, honest or with a bad share
ToPhase2Lean ==
    ToPhase2(Round1Deliveries(members, My, {"Honest", "BadShare"}))

\* every list of at most MaxItems round-2 broadcasts: the member's own, a
\* false accusation against any member, a genuine one against the lowest peer
ToPhase3Rich ==
    ToPhase3(SeqsUpTo(OwnBroadcast2
                      \cup Round2Broadcasts(members, My, DOMAIN members, {"Honest"})
                      \cup Round2Broadcasts(members, My,
                                            LowestOf(Others(members, My)), {"BadShare"}),
                      MaxItems))

\* no complaint, the member's own, or a false accusation against the lowest peer
ToPhase3Lean ==
    ToPhase3(SeqsUpTo(OwnBroadcast2
                      \cup Round2Broadcasts(members, My,
                                            LowestOf(Others(members, My)), {"Honest"}),
                      1))

\* every list of at most MaxItems round-3 items, in any order, with repeats
ToPhase4Rich ==
    ToPhase4(SeqsUpTo(Round3Items(members, {"Honest", "Generators"}), MaxItems))

\* what a channel delivers: one item per peer, honest or altered
ToPhase4Lean ==
    ToPhase4(Round3Deliveries(members, My, {"Honest", "Generators"}))

\* the whole driver, fed by a channel
Next == EnvInit \/ DriverInit \/ ToPhase2Lean \/ ToPhase3Lean \/ ToPhase4Lean

Spec == Init /\ [][Next]_vars

\* the driver up to to_phase_2, with every list of round-1 items
NextPhase2 == EnvInit \/ DriverInit \/ ToPhase2Rich

\* every public key: a wrapped group element
PublicKeys == ScalarSet \X ScalarSet

\* three communication public keys to be compared
KeysStart ==
    /\ pc = "Keys"
    /\ env = None
    /\ me = None
    /\ seed = 0
    /\ members = <<>>
    /\ input \in [1 .. 3 -> PublicKeys]
    /\ prev = None
    /\ result = "None"
    /\ broadcast = None
    /\ op = "None"
    /\ parties = <<>>
    /\ fault = NoFault

\* cmp and partial_cmp applied to every pair of the three keys
CompareKeys ==
    /\ pc = "Keys"
    /\ pc' = "Compared"
    /\ op' = "cmp"
    /\ result' = [ cmp |-> [i \in 1 .. 3 |-> [j \in 1 .. 3 |-> cmp(input[i], input[j])]],
                   partial_cmp |->
                       [i \in 1 .. 3 |-> [j \in 1 .. 3 |-> partial_cmp(input[i], input[j])]] ]
    /\ UNCHANGED <<env, me, seed, members, input, prev, broadcast, parties, fault>>

SpecKeys == KeysStart /\ [][CompareKeys]_vars

\* the hybrid ciphertexts: any header, a payload sealed under one of two keys
Ciphertexts ==
    [e1 : PublicKeys, sealed : {zero, generator}, bytes : {0, NonCanonical}]

\* a communication key and a hybrid ciphertext to prove the decryption of
ProofStart ==
    /\ pc = "Proof"
    /\ env = None
    /\ me = None
    /\ seed = 0
    /\ members = <<>>
    /\ input \in ScalarSet \X Ciphertexts
    /\ prev = None
    /\ result = "None"
    /\ broadcast = None
    /\ op = "None"
    /\ parties = <<>>
    /\ fault = NoFault

\* tests::it_works on the key and the ciphertext drawn: the symmetric key is
\* recovered, the proof generated and then verified
ProveDecryption ==
    /\ pc = "Proof"
    /\ pc' = "Proved"
    /\ op' = "Zkp::generate"
    /\ LET comm_key == input[1]
           comm_pkey == to_public(comm_key)
           ciphertext == input[2]
           decryption_key == recover_symmetric_key(comm_key, ciphertext)
           proof == Zkp_generate(ciphertext, comm_pkey, decryption_key, comm_key)
       IN  /\ broadcast' = Some(proof)
           /\ result' = IF Zkp_verify(proof, ciphertext, decryption_key, comm_pkey)
                         THEN "Ok" ELSE "ProofError"
    /\ UNCHANGED <<env, me, seed, members, input, prev, parties, fault>>

SpecProof == ProofStart /\ [][ProveDecryption]_vars

\* a slice of up to three public shares, the empty one included
SharesStart ==
    /\ pc = "Shares"
    /\ env = None
    /\ me = None
    /\ seed = 0
    /\ members = <<>>
    /\ input \in UNION {[1 .. n -> PublicKeys] : n \in 0 .. 3}
    /\ prev = None
    /\ result = "None"
    /\ broadcast = None
    /\ op = "None"
    /\ parties = <<>>
    /\ fault = NoFault

\* MasterPublicKey::from_participants on the slice drawn; pks[0] panics on
\* the empty slice
SumShares ==
    /\ pc = "Shares"
    /\ op' = "from_participants"
    /\ IF Len(input) = 0
       THEN /\ pc' = "Aborted"
            /\ result' = "Panic"
            /\ broadcast' = None
       ELSE /\ pc' = "Summed"
            /\ result' = "Ok"
            /\ broadcast' = Some(from_participants(input))
    /\ UNCHANGED <<env, me, seed, members, input, prev, parties, fault>>

SpecMaster == SharesStart /\ [][SumShares]_vars

\* how many items are taken from an iterator over the powers of a scalar
MaxTake == 5

\* an integer to make a scalar of
PowersStart ==
    /\ pc = "Scalar"
    /\ env = None
    /\ me = None
    /\ seed = 0
    /\ members = <<>>
    /\ input \in 0 .. 4 * GroupOrder - 1
    /\ prev = None
    /\ result = "None"
    /\ broadcast = None
    /\ op = "None"
    /\ parties = <<>>
    /\ fault = NoFault

\* from_u64(input).exp_iter(): me holds the iterator
ExpIter ==
    /\ pc = "Scalar"
    /\ pc' = "Iterating"
    /\ op' = "exp_iter"
    /\ me' = Some(exp_iter(from_u64(input)))
    /\ result' = "Ok"
    /\ UNCHANGED <<env, seed, members, input, prev, broadcast, parties, fault>>

\* next on the iterator: result holds what it returns, members the items
\* taken so far, prev the iterator before the call
IterNext ==
    /\ pc = "Iterating"
    /\ Len(members) < MaxTake
    /\ op' = "next"
    /\ prev' = me
    /\ me' = Some(ScalarExp_next(Unwrap(me)).iterator)
    /\ result' = ScalarExp_next(Unwrap(me)).item
    /\ members' = members \o ScalarExp_next(Unwrap(me)).item
    /\ UNCHANGED <<pc, env, seed, input, broadcast, parties, fault>>

NextPowers == ExpIter \/ IterNext

SpecPowers == PowersStart /\ [][NextPowers]_vars

\* the two constructors, with every index and committee length
NextInit == EnvInit \/ DriverInitRich

SpecInit == Init /\ [][NextInit]_vars

SpecPhase2 == Init /\ [][NextPhase2]_vars

\* the driver up to to_phase_3, with every list of round-2 broadcasts
NextPhase3 == EnvInit \/ DriverInit \/ ToPhase2Lean \/ ToPhase3Rich

SpecPhase3 == Init /\ [][NextPhase3]_vars

\* the driver up to to_phase_4, with every list of round-3 items
NextPhase4 == EnvInit \/ DriverInit \/ ToPhase2Lean \/ ToPhase3Lean \/ ToPhase4Rich

SpecPhase4 == Init /\ [][NextPhase4]_vars

\* every list of at most MaxItems round-2 broadcasts made of the member's
\* own and a false accusation against the lowest peer
ToPhase3Ordered ==
    ToPhase3(SeqsUpTo(OwnBroadcast2
                      \cup Round2Broadcasts(members, My,
                                            LowestOf(Others(members, My)), {"Honest"}),
                      MaxItems))

\* the whole driver, fed by a channel in rounds 1 and 3 and with lists of
\* round-2 broadcasts in every order
NextOrder == EnvInit \/ DriverInit \/ ToPhase2Lean \/ ToPhase3Ordered \/ ToPhase4Lean

SpecOrder == Init /\ [][NextOrder]_vars

(***************************************************************************)
(* A ceremony: every member of the committee runs the driver, and a         *)
(* broadcast channel hands each member, round by round, what all the        *)
(* others published (the tests full_run and the crate-level example).  A    *)
(* member takes the transition of a round once every member has finished    *)
(* the round before.  After Phase4 the member finalises; Phase5 and         *)
(* finalise are not among the sources and follow the specification:         *)
(* MasterPublicKey is the sum of A_{i,0} over the final qualified set.      *)
(***************************************************************************)
Faults(nr_members) ==
    {NoFault}
    \cup { x \in [ member : 1 .. nr_members,
                   kind : {"BadShare", "FalseAccusation"},
                   victim : 1 .. nr_members ] : x.member # x.victim }

\* a member before init
FreshParty ==
    [ pc |-> "Initialise", state |-> None,
      out1 |-> None, out2 |-> None, out3 |-> None, out4 |-> None,
      res2 |-> "None", res3 |-> "None", res4 |-> "None", key |-> None ]

CeremonyStart ==
    /\ pc = "Start"
    /\ me = None
    /\ input = <<>>
    /\ prev = None
    /\ result = "None"
    /\ broadcast = None
    /\ op = "None"
    /\ seed \in 0 .. MaxSeed
    /\ \E threshold \in 1 .. MaxMembers, nr_members \in 1 .. MaxMembers :
          /\ EnvironmentAccepted(threshold, nr_members)
          /\ env = Some(Environment_init(threshold, nr_members, CommitmentKeyH))
          /\ members = CeremonyInit(seed, Unwrap(env))
          /\ parties = [i \in 1 .. nr_members |-> FreshParty]
          /\ fault \in Faults(nr_members)

\* every member is past the phases of the set early
AllPast(early) == \A d \in DOMAIN parties : parties[d].pc \notin early

\* member i may take the transition of its phase: every member has finished
\* the round before
Ready(i) ==
    CASE parties[i].pc = "Initialise" -> TRUE
      [] parties[i].pc = "Phase1" -> AllPast({"Initialise"})
      [] parties[i].pc = "Phase2" -> AllPast({"Initialise", "Phase1"})
      [] parties[i].pc = "Phase3" -> AllPast({"Initialise", "Phase1", "Phase2"})
      [] parties[i].pc = "Phase4" ->
             AllPast({"Initialise", "Phase1", "Phase2", "Phase3"})
      [] OTHER -> FALSE

\* what the channel hands member i in round 1: from every other member d
\* the entry of d's Broadcast1 addressed to i, from sender d onwards
RECURSIVE FetchedRound1(_, _)
FetchedRound1(i, d) ==
    IF d > Len(parties) THEN <<>>
    ELSE IF d = i \/ ~IsSome(parties[d].out1)
    THEN FetchedRound1(i, d + 1)
    ELSE LET posted == Unwrap(parties[d].out1)
             item == [ sender_index |-> d,
                       indexed_shares |->
                           Unwrap(SharesForFrom(posted.encrypted_shares, i, 1)),
                       committed_coeffs |-> posted.committed_coefficients ]
         IN  << IF fault.kind = "BadShare" /\ fault.member = d /\ fault.victim = i
                THEN Tamper(item, "BadShare", Len(parties))
                ELSE item >>
             \o FetchedRound1(i, d + 1)

\* the Broadcast2 of every other member that published one
RECURSIVE PostedRound2(_, _)
PostedRound2(i, d) ==
    IF d > Len(parties) THEN <<>>
    ELSE IF d = i \/ ~IsSome(parties[d].out2)
    THEN PostedRound2(i, d + 1)
    ELSE <<Unwrap(parties[d].out2)>> \o PostedRound2(i, d + 1)

\* what the channel hands member i in round 2: the others' Broadcast2 and,
\* from a member that accuses falsely, a complaint over the shares the
\* victim dealt it
FetchedRound2(i) ==
    PostedRound2(i, 1)
    \o (IF fault.kind = "FalseAccusation" /\ fault.member # i
        THEN << Accusation(fault.member, fault.victim,
                           HonestItem(members, fault.victim, fault.member)) >>
        ELSE <<>>)

\* what the channel hands member i in round 3: the Broadcast3 of every other
\* member that published one
RECURSIVE FetchedRound3(_, _)
FetchedRound3(i, d) ==
    IF d > Len(parties) THEN <<>>
    ELSE IF d = i \/ ~IsSome(parties[d].out3)
    THEN FetchedRound3(i, d + 1)
    ELSE << [ sender_index |-> d,
              committed_coefficients |->
                  Unwrap(parties[d].out3).committed_coefficients ] >>
         \o FetchedRound3(i, d + 1)

\* A_{k,0} for the members k, from k onwards, that a qualified set holds
RECURSIVE QualifiedConstantTerms(_, _)
QualifiedConstantTerms(qualified_set, k) ==
    IF k > Len(qualified_set) THEN <<>>
    ELSE (IF qualified_set[k] = 1
          THEN <<members[k].state.committed_coefficients[1]>> ELSE <<>>)
         \o QualifiedConstantTerms(qualified_set, k + 1)

\* finalise: the master public key over the final qualified set
finalise(state) ==
    LET terms == QualifiedConstantTerms(state.qualified_set, 1)
    IN  IF terms = <<>> THEN None ELSE Some(from_participants(terms))

\* the single member's variables, which a ceremony leaves alone
CeremonyFrame ==
    UNCHANGED <<pc, env, me, seed, members, input, prev, result, broadcast, op, fault>>

PartyInit(i) ==
    /\ parties[i].pc = "Initialise"
    /\ Ready(i)
    /\ parties' = [parties EXCEPT ![i] =
                      [@ EXCEPT !.pc = "Phase1",
                                !.state = Some(members[i].state),
                                !.out1 = Some(members[i].broadcast)]]
    /\ CeremonyFrame

PartyToPhase2(i) ==
    /\ parties[i].pc = "Phase1"
    /\ Ready(i)
    /\ LET state == Unwrap(parties[i].state)
           r == to_phase_2(state, state.environment, FetchedRound1(i, 1))
       IN  parties' = [parties EXCEPT ![i] =
                          [@ EXCEPT !.pc = PcAfter(r.result, "Phase2"),
                                    !.state = r.state,
                                    !.res2 = r.result,
                                    !.out2 = r.broadcast]]
    /\ CeremonyFrame

PartyToPhase3(i) ==
    /\ parties[i].pc = "Phase2"
    /\ Ready(i)
    /\ LET r == to_phase_3(Unwrap(parties[i].state), FetchedRound2(i))
       IN  parties' = [parties EXCEPT ![i] =
                          [@ EXCEPT !.pc = PcAfter(r.result, "Phase3"),
                                    !.state = r.state,
                                    !.res3 = r.result,
                                    !.out3 = r.broadcast]]
    /\ CeremonyFrame

PartyToPhase4(i) ==
    /\ parties[i].pc = "Phase3"
    /\ Ready(i)
    /\ LET r == to_phase_4(Unwrap(parties[i].state), FetchedRound3(i, 1))
       IN  parties' = [parties EXCEPT ![i] =
                          [@ EXCEPT !.pc = PcAfter(r.result, "Phase4"),
                                    !.state = r.state,
                                    !.res4 = r.result,
                                    !.out4 = r.broadcast]]
    /\ CeremonyFrame

PartyFinalise(i) ==
    /\ parties[i].pc = "Phase4"
    /\ Ready(i)
    /\ LET key == finalise(Unwrap(parties[i].state))
       IN  parties' = [parties EXCEPT ![i] =
                          [@ EXCEPT !.pc = IF IsSome(key) THEN "Finalised" ELSE "Out",
                                    !.key = key]]
    /\ CeremonyFrame

NextCeremony ==
    \/ \E i \in DOMAIN parties : PartyInit(i)
    \/ \E i \in DOMAIN parties : PartyToPhase2(i)
    \/ \E i \in DOMAIN parties : PartyToPhase3(i)
    \/ \E i \in DOMAIN parties : PartyToPhase4(i)
    \/ \E i \in DOMAIN parties : PartyFinalise(i)

SpecCeremony == CeremonyStart /\ [][NextCeremony]_vars

(***************************************************************************)
(* The vocabulary of the properties, written from the protocol's           *)
(* definitions and not from the driver's operators.                         *)
(***************************************************************************)
\* x^k in the scalar field
RECURSIVE Pow(_, _)
Pow(x, k) == IF k = 0 THEN 1 ELSE SMul(x % GroupOrder, Pow(x, k - 1))

\* sum over j = k .. t of index^j * E_j, E_j at position j + 1 of E
RECURSIVE PowerSum(_, _, _, _)
PowerSum(index, E, k, t) ==
    IF k > t \/ k + 1 > Len(E) THEN zero
    ELSE GAdd(GMul(E[k + 1], Pow(index, k)), PowerSum(index, E, k + 1, t))

\* the positions of list holding an item of sender i
ItemsOf(list, i) == {k \in 1 .. Len(list) : list[k].sender_index = i}

\* whether both ciphertexts of a round-1 item decrypt to canonical scalars
\* under the key of state
Canonical(state, item) ==
    LET dec == decrypt_shares(state.communication_sk, item.indexed_shares)
    IN  IsSome(dec[1]) /\ IsSome(dec[2])

\* h^t * g^s == sum_k my^k * E_k for the pair (t, s) a canonical item decrypts to
PedersenHolds(state, item) ==
    LET dec == decrypt_shares(state.communication_sk, item.indexed_shares)
        t == Unwrap(dec[1])
        s == Unwrap(dec[2])
    IN  GAdd(GMul(state.environment.commitment_key, t), GMul(generator, s))
          = PowerSum(state.index, item.committed_coeffs, 0, state.environment.threshold)

\* every item of list is addressed to the member of state
AddressedTo(state, list) ==
    \A k \in 1 .. Len(list) : list[k].indexed_shares[1] = state.index

\* the complaints of the last transition's broadcast
Complaints == IF IsSome(broadcast) THEN Unwrap(broadcast).misbehaving_parties ELSE <<>>

\* the last transition was to_phase_2 and it processed its whole list
Phase2Processed ==
    /\ op = "to_phase_2"
    /\ AddressedTo(Unwrap(prev), input)

(***************************************************************************)
(* C4. In to_phase_2, for every sender i whose two ciphertexts decrypt to   *)
(* canonical scalars (s, t): a complaint (i, ShareValidityFailed, proof) is *)
(* recorded and qualified_set[i-1] is set to 0 if and only if the Pedersen  *)
(* check h^t * g^s == sum over k = 0..threshold of my^k * E_k fails, E_k    *)
(* being the sender's round-1 committed coefficients; a sender whose check  *)
(* holds gets no complaint and stays qualified.  Stated over the            *)
(* transitions that processed their list (every item addressed to the       *)
(* member); the qualified set is the one of the Phase2 state returned.      *)
(***************************************************************************)
C4_ComplaintIffShareCheckFails ==
    Phase2Processed =>
        \A i \in 1 .. Unwrap(prev).environment.nr_members :
            LET state == Unwrap(prev)
                mine == ItemsOf(input, i)
                fails == {k \in mine : ~PedersenHolds(state, input[k])}
                against == {c \in 1 .. Len(Complaints) : Complaints[c][1] = i}
            IN  (mine # {} /\ \A k \in mine : Canonical(state, input[k])) =>
                    /\ (fails # {}) <=> (against # {})
                    /\ \A c \in against :
                          /\ Complaints[c][2] = "ShareValidityFailed"
                          /\ \E k \in fails :
                                Complaints[c][3].encrypted_shares = input[k].indexed_shares
                    /\ result = "Ok" =>
                          Unwrap(me).qualified_set[i] = (IF fails # {} THEN 0 ELSE 1)

\* a member kept going with one sender complained about and another cleared
C4_Witness ==
    /\ Phase2Processed
    /\ result = "Ok"
    /\ \E i, j \in 1 .. Unwrap(prev).environment.nr_members :
          /\ \E k \in ItemsOf(input, i) :
                Canonical(Unwrap(prev), input[k]) /\ ~PedersenHolds(Unwrap(prev), input[k])
          /\ \E c \in 1 .. Len(Complaints) :
                Complaints[c][1] = i /\ Complaints[c][2] = "ShareValidityFailed"
          /\ Unwrap(me).qualified_set[i] = 0
          /\ \E k \in ItemsOf(input, j) :
                Canonical(Unwrap(prev), input[k]) /\ PedersenHolds(Unwrap(prev), input[k])
          /\ Unwrap(me).qualified_set[j] = 1

\* the items of a list that earn a complaint, in the order of the list
Complained(state, list) ==
    LET Bad(x) == ~Canonical(state, x) \/ ~PedersenHolds(state, x)
    IN  SelectSeq(list, Bad)

(***************************************************************************)
(* C5. to_phase_2 returns Err(MisbehaviourHigherThreshold) together with    *)
(* Some(Broadcast2) carrying all recorded complaints exactly when the       *)
(* number of complaints is >= threshold; otherwise it returns Ok(Phase2),   *)
(* with Some(Broadcast2) if at least one complaint was recorded and None if *)
(* none was.  Stated over the transitions that processed their list.        *)
(***************************************************************************)
C5_Phase2AbortsAtThreshold ==
    Phase2Processed =>
        LET state == Unwrap(prev)
            bad == Complained(state, input)
        IN  /\ result = (IF Len(bad) >= state.environment.threshold
                         THEN "MisbehaviourHigherThreshold" ELSE "Ok")
            /\ IsSome(broadcast) <=> (Len(bad) >= 1)
            /\ Len(Complaints) = Len(bad)
            /\ \A k \in 1 .. Len(bad) :
                  /\ Complaints[k][1] = bad[k].sender_index
                  /\ Complaints[k][3].encrypted_shares = bad[k].indexed_shares
            /\ IsSome(me) <=> (result = "Ok")

\* a member stopped with exactly threshold complaints, all of them broadcast
C5_Witness ==
    /\ Phase2Processed
    /\ result = "MisbehaviourHigherThreshold"
    /\ Len(Complained(Unwrap(prev), input)) = Unwrap(prev).environment.threshold
    /\ Len(Complaints) = Unwrap(prev).environment.threshold

\* the last transition was to_phase_3
Phase3Ran == op = "to_phase_3"

\* the complaints of a list of round-2 broadcasts, as a set
ComplaintsIn(list) ==
    UNION { { list[b].misbehaving_parties[c] :
                c \in 1 .. Len(list[b].misbehaving_parties) } :
            b \in 1 .. Len(list) }

\* whether a round-2 complaint against member a verifies for its accuser c,
\* the recipient of the ciphertexts it discloses: ProofOfMisbehaviour::verify
\* over those ciphertexts and the coefficient commitments a published
ComplaintVerifies(state, complaint) ==
    LET a == complaint[1]
        proof == complaint[3]
        c == proof.encrypted_shares[1]
        published == [ sender_index |-> a,
                       indexed_shares |-> proof.encrypted_shares,
                       committed_coeffs |-> members[a].broadcast.committed_coefficients ]
    IN  /\ c \in 1 .. state.environment.nr_members
        /\ ProofOfMisbehaviour_verify(proof, to_public(CommSk(c)), published,
                                      state.environment.commitment_key, c,
                                      state.environment.threshold)

(***************************************************************************)
(* C6. to_phase_3 acts on a complaint (accused_idx, reason, proof) only     *)
(* after verifying its proof: a member is set to 0 in qualified_set by      *)
(* to_phase_3 only if some supplied complaint against it carries a proof    *)
(* that verifies, and a complaint whose proof does not verify is discarded  *)
(* and leaves qualified_set unchanged (so an honest dealer cannot be        *)
(* disqualified by a false accusation).                                     *)
(***************************************************************************)
C6_OnlyVerifiedComplaintsDisqualify ==
    (Phase3Ran /\ result = "Ok") =>
        \A i \in 1 .. Unwrap(prev).environment.nr_members :
            (Unwrap(prev).qualified_set[i] = 1 /\ Unwrap(me).qualified_set[i] = 0) =>
                \E complaint \in ComplaintsIn(input) :
                    /\ complaint[1] = i
                    /\ ComplaintVerifies(Unwrap(prev), complaint)

\* the qualified set after applying the complaints of a list whose proofs
\* verify: a position stays 1 when it was 1 and no such complaint names it
QualifiedAfter(state, list) ==
    [ i \in 1 .. state.environment.nr_members |->
        IF state.qualified_set[i] = 1
           /\ \A complaint \in ComplaintsIn(list) :
                 complaint[1] = i => ~ComplaintVerifies(state, complaint)
        THEN 1 ELSE 0 ]

\* the number of entries of a qualified set equal to 1
NumberQualified(qualified_set) ==
    Cardinality({i \in 1 .. Len(qualified_set) : qualified_set[i] = 1})

(***************************************************************************)
(* C7. to_phase_3 returns Err(MisbehaviourHigherThreshold) (with no         *)
(* Broadcast3) whenever, after applying the supplied complaints, the number *)
(* of entries equal to 1 in qualified_set is smaller than threshold.  The   *)
(* premise counts the entries left after the complaints that verify, which  *)
(* are at least as many as those left after every supplied complaint.       *)
(***************************************************************************)
C7_Phase3AbortsBelowThreshold ==
    ( /\ Phase3Ran
      /\ NumberQualified(QualifiedAfter(Unwrap(prev), input))
            < Unwrap(prev).environment.threshold ) =>
        /\ result = "MisbehaviourHigherThreshold"
        /\ broadcast = None

\* the last transition was to_phase_4 and it returned
Phase4Returned == op = "to_phase_4" /\ result # "Panic"

\* the pair (t_i, s_i) member state recorded for sender i in to_phase_2
Recorded(state, i) == Unwrap(state.indexed_received_shares)[i]

\* g^(s_i) == sum_k my^k * A_k for the coefficients A of a round-3 item
\* whose sender has a recorded share
CommitmentHolds(state, item) ==
    LET s == Unwrap(Recorded(state, item.sender_index))[2]
    IN  GMul(generator, s)
          = PowerSum(state.index, item.committed_coefficients, 0,
                     state.environment.threshold)

\* the positions of list that a member checks: the sender is qualified
Checked(state, list) ==
    {k \in 1 .. Len(list) : state.qualified_set[list[k].sender_index] = 1}

\* the members counted as honest: the member itself, plus every qualified
\* sender with a delivered item that passes the check
HonestMembers(state, list) ==
    {state.index}
    \cup {list[k].sender_index : k \in {j \in Checked(state, list) :
                                           CommitmentHolds(state, list[j])}}

\* the positions of list whose item is checked and does not pass
Mismatches(state, list) ==
    {k \in Checked(state, list) : ~CommitmentHolds(state, list[k])}

(***************************************************************************)
(* C8. to_phase_4 returns Err(MisbehaviourHigherThreshold) exactly when the *)
(* number of honest members (self, plus every qualified sender whose        *)
(* delivered Broadcast3 passes the plain-commitment check) is < threshold,  *)
(* and Ok(Phase4) otherwise; in both cases it returns Some(Broadcast4) iff  *)
(* at least one mismatch was found.  A sender absent from round 3 is not    *)
(* counted as honest, and the transition still succeeds when the honest     *)
(* count equals the threshold.  Stated over the calls that return.          *)
(***************************************************************************)
C8_Phase4AbortsBelowThreshold ==
    Phase4Returned =>
        LET state == Unwrap(prev)
            honest == HonestMembers(state, input)
        IN  /\ result = (IF Cardinality(honest) < state.environment.threshold
                         THEN "MisbehaviourHigherThreshold" ELSE "Ok")
            /\ IsSome(broadcast) <=> (Mismatches(state, input) # {})
            /\ IsSome(me) <=> (result = "Ok")

\* a member went on with exactly threshold honest members while a qualified
\* peer delivered nothing in round 3
C8_Witness ==
    /\ Phase4Returned
    /\ result = "Ok"
    /\ Cardinality(HonestMembers(Unwrap(prev), input))
          = Unwrap(prev).environment.threshold
    /\ \E i \in 1 .. Unwrap(prev).environment.nr_members :
          /\ i # Unwrap(prev).index
          /\ Unwrap(prev).qualified_set[i] = 1
          /\ ItemsOf(input, i) = {}

(***************************************************************************)
(* C9. In to_phase_4, for every qualified sender i != my whose delivered    *)
(* Broadcast3 coefficients A_{i,k} do not satisfy g^(s_i) == sum_k my^k *   *)
(* A_{i,k}, Broadcast4 contains an entry (i, t_i, s_i) with exactly the two *)
(* scalars recorded for i in to_phase_2; a sender whose coefficients        *)
(* satisfy the equation is marked honest and is not named in Broadcast4.    *)
(* Stated over the calls that return.                                       *)
(***************************************************************************)
C9_Broadcast4DisclosesRecordedShares ==
    Phase4Returned =>
        LET state == Unwrap(prev)
            entries == {Complaints[c] : c \in 1 .. Len(Complaints)}
            marked == Phase4Acc(state, input).honest
        IN  \A i \in (1 .. state.environment.nr_members) \ {state.index} :
                LET mine == ItemsOf(input, i) \cap Checked(state, input)
                    failing == mine \cap Mismatches(state, input)
                IN  /\ failing # {} =>
                          << i, Unwrap(Recorded(state, i))[1],
                                Unwrap(Recorded(state, i))[2] >> \in entries
                    /\ \A e \in entries :
                          e[1] = i => /\ failing # {}
                                      /\ e[2] = Unwrap(Recorded(state, i))[1]
                                      /\ e[3] = Unwrap(Recorded(state, i))[2]
                    /\ (mine # {} /\ failing = {}) =>
                          /\ marked[i] = 1
                          /\ \A e \in entries : e[1] # i

\* a returned Broadcast4 names one sender while another was marked honest,
\* and the two scalars recorded for the named sender differ
C9_Witness ==
    /\ Phase4Returned
    /\ \E i, j \in (1 .. Unwrap(prev).environment.nr_members) \ {Unwrap(prev).index} :
          /\ ItemsOf(input, i) \cap Mismatches(Unwrap(prev), input) # {}
          /\ Unwrap(Recorded(Unwrap(prev), i))[1] # Unwrap(Recorded(Unwrap(prev), i))[2]
          /\ \E c \in 1 .. Len(Complaints) : Complaints[c][1] = i
          /\ ItemsOf(input, j) \cap Checked(Unwrap(prev), input) # {}
          /\ ItemsOf(input, j) \cap Mismatches(Unwrap(prev), input) = {}
          /\ Phase4Acc(Unwrap(prev), input).honest[j] = 1

\* the order of the phases: each transition leads to the next phase only
PhaseSuccessor ==
    { <<"Start", "Initialise">>, <<"Initialise", "Phase1">>, <<"Phase1", "Phase2">>,
      <<"Phase2", "Phase3">>, <<"Phase3", "Phase4">> }

C10_DisqualificationIsMonotone ==
    (op \in {"to_phase_3", "to_phase_4"} /\ result = "Ok") =>
        \A i \in 1 .. Unwrap(prev).environment.nr_members :
            Unwrap(prev).qualified_set[i] = 0 => Unwrap(me).qualified_set[i] = 0

\* a position zeroed in to_phase_2 is still 0 after to_phase_3, though no
\* broadcast handed to to_phase_3 names it
C10_Witness ==
    /\ Phase3Ran
    /\ result = "Ok"
    /\ \E i \in 1 .. Unwrap(prev).environment.nr_members :
          /\ Unwrap(prev).qualified_set[i] = 0
          /\ Unwrap(me).qualified_set[i] = 0
          /\ \A complaint \in ComplaintsIn(input) : complaint[1] # i

\* no member deviates, and no transport alters or drops anything
Faultless == fault = NoFault

\* every entry of the qualified set of member i is 1
AllQualified(i) ==
    \A k \in 1 .. Len(parties) : Unwrap(parties[i].state).qualified_set[k] = 1

(***************************************************************************)
(* C1. In a ceremony where every member runs init with its own index and    *)
(* every member is handed every other member's unmodified round-1 item      *)
(* addressed to it, every member's to_phase_2 returns Ok with no            *)
(* Broadcast2, to_phase_3 (given no complaints) returns Ok with a           *)
(* Broadcast3, and to_phase_4 (given all other members' Broadcast3)         *)
(* returns Ok with no Broadcast4; every member reaches Phase4 with          *)
(* qualified_set all 1.  No member ever leaves the ceremony, and as long    *)
(* as some member has not finalised some member is ready for a transition.  *)
(***************************************************************************)
C1_HonestCeremonySucceeds ==
    Faultless =>
        /\ \A i \in DOMAIN parties :
              LET p == parties[i]
              IN  /\ p.pc \in {"Initialise", "Phase1", "Phase2", "Phase3",
                                "Phase4", "Finalised"}
                  /\ p.pc \in {"Phase2", "Phase3", "Phase4", "Finalised"} =>
                        p.res2 = "Ok" /\ p.out2 = None
                  /\ p.pc \in {"Phase3", "Phase4", "Finalised"} =>
                        /\ p.res3 = "Ok"
                        /\ p.out3 = Some([committed_coefficients |->
                                             Unwrap(p.state).committed_coefficients])
                  /\ p.pc \in {"Phase4", "Finalised"} =>
                        p.res4 = "Ok" /\ p.out4 = None /\ AllQualified(i)
        /\ (\E i \in DOMAIN parties : parties[i].pc # "Finalised") =>
              \E i \in DOMAIN parties : Ready(i)

\* a committee of several members, all of them arrived at Phase4
C1_Witness ==
    /\ Faultless
    /\ Len(parties) >= 2
    /\ \A i \in DOMAIN parties :
          /\ parties[i].pc = "Phase4"
          /\ parties[i].res4 = "Ok"
          /\ AllQualified(i)

\* the members that follow the protocol
HonestParties == (DOMAIN parties) \ {fault.member}

(***************************************************************************)
(* C2. For all honest members i and j that complete the ceremony, the       *)
(* MasterPublicKey computed by i at Finalise equals the one computed by j.  *)
(***************************************************************************)
C2_MasterPublicKeysAgree ==
    \A i, j \in HonestParties :
        (parties[i].pc = "Finalised" /\ parties[j].pc = "Finalised") =>
            /\ IsSome(parties[i].key)
            /\ parties[i].key = parties[j].key

\* two honest members finalised a ceremony in which a dealer was
\* disqualified for an altered share
C2_Witness ==
    /\ fault.kind = "BadShare"
    /\ \E i, j \in HonestParties :
          /\ i # j
          /\ parties[i].pc = "Finalised"
          /\ parties[j].pc = "Finalised"
          /\ parties[i].key = parties[j].key
          /\ Unwrap(parties[i].state).qualified_set[fault.member] = 0
          /\ Unwrap(parties[j].state).qualified_set[fault.member] = 0

(***************************************************************************)
(* C11. In every reachable state of a member, from Phase1 through Phase4    *)
(* and whatever round-1 items and complaints are supplied, the member's own *)
(* position in its qualified_set is 1 (qualified_set[index-1] == 1).        *)
(***************************************************************************)
C11_OwnPositionQualified ==
    IsSome(me) => Unwrap(me).qualified_set[Unwrap(me).index] = 1

\* the senders other than the member of state with no item in list
Absent(state, list) ==
    {i \in (1 .. state.environment.nr_members) \ {state.index} : ItemsOf(list, i) = {}}

(***************************************************************************)
(* C12. A sender whose broadcast for a round is absent at a recipient is    *)
(* treated by that recipient as misbehaving: a sender with no round-1 item  *)
(* in the input of to_phase_2 is not qualified in the resulting state, and  *)
(* a sender with no Broadcast3 in the input of to_phase_4 is not counted as *)
(* honest.                                                                  *)
(***************************************************************************)
C12_AbsentSenderMisbehaving ==
    /\ (Phase2Processed /\ result = "Ok") =>
          \A i \in Absent(Unwrap(prev), input) : Unwrap(me).qualified_set[i] = 0
    /\ Phase4Returned =>
          \A i \in Absent(Unwrap(prev), input) :
              Phase4Acc(Unwrap(prev), input).honest[i] = 0

(***************************************************************************)
(* C13. If any item supplied to to_phase_2 carries encrypted shares whose   *)
(* recipient index differs from this member's index, to_phase_2 returns     *)
(* Err(FetchedInvalidData) and no Broadcast2, whatever the other items are  *)
(* (including items that would have produced complaints or reached the      *)
(* complaint threshold).                                                    *)
(***************************************************************************)
C13_WrongRecipientIsInvalidData ==
    (op = "to_phase_2" /\ ~AddressedTo(Unwrap(prev), input)) =>
        /\ result = "FetchedInvalidData"
        /\ broadcast = None
        /\ me = None

\* a list whose first item earns a complaint and whose second item is
\* addressed to another member was rejected without a broadcast
C13_Witness ==
    /\ op = "to_phase_2"
    /\ result = "FetchedInvalidData"
    /\ broadcast = None
    /\ Len(input) = 2
    /\ input[1].indexed_shares[1] = Unwrap(prev).index
    /\ Complained(Unwrap(prev), <<input[1]>>) # <<>>
    /\ input[2].indexed_shares[1] # Unwrap(prev).index

\* the slot of indexed_received_shares a Phase2 state holds for sender i
Slot(state, i) == Unwrap(state.indexed_received_shares)[i]

(***************************************************************************)
(* C14. In to_phase_2, when either of a sender's two ciphertexts fails to   *)
(* decrypt to a canonical scalar, a complaint (i, ScalarOutOfBounds, proof) *)
(* is recorded against that sender, qualified_set[i-1] is set to 0, no      *)
(* share is recorded for that sender, and the remaining senders are still   *)
(* processed (the fault alone does not fail the transition).  The sender i  *)
(* ranges over those none of whose delivered items decrypts; a later item   *)
(* of another sender is processed when it left a recorded share or a        *)
(* complaint, and the transition fails only if the complaints reach the     *)
(* threshold.                                                               *)
(***************************************************************************)
C14_UndecryptableShareIsComplaint ==
    Phase2Processed =>
        LET state == Unwrap(prev)
        IN  \A i \in 1 .. state.environment.nr_members :
                LET mine == ItemsOf(input, i)
                IN  (mine # {} /\ \A k \in mine : ~Canonical(state, input[k])) =>
                        /\ \A k \in mine : \E c \in 1 .. Len(Complaints) :
                              /\ Complaints[c][1] = i
                              /\ Complaints[c][2] = "ScalarOutOfBounds"
                              /\ Complaints[c][3].encrypted_shares = input[k].indexed_shares
                        /\ \A c \in 1 .. Len(Complaints) :
                              Complaints[c][1] = i => Complaints[c][2] = "ScalarOutOfBounds"
                        /\ (Len(Complaints) < state.environment.threshold) <=> (result = "Ok")
                        /\ result = "Ok" =>
                              /\ Unwrap(me).qualified_set[i] = 0
                              /\ Slot(Unwrap(me), i) = None
                              /\ \A j \in (1 .. state.environment.nr_members) \ {i} :
                                    \A k \in ItemsOf(input, j) :
                                        \/ IsSome(Slot(Unwrap(me), j))
                                        \/ \E c \in 1 .. Len(Complaints) : Complaints[c][1] = j

\* a member went on after an item whose second ciphertext does not decrypt,
\* and recorded the share of the sender that followed
C14_Witness ==
    /\ Phase2Processed
    /\ result = "Ok"
    /\ Len(input) = 2
    /\ input[1].sender_index # input[2].sender_index
    /\ IsSome(decrypt_shares(Unwrap(prev).communication_sk, input[1].indexed_shares)[1])
    /\ ~IsSome(decrypt_shares(Unwrap(prev).communication_sk, input[1].indexed_shares)[2])
    /\ Len(Complaints) = 1
    /\ Complaints[1][2] = "ScalarOutOfBounds"
    /\ Unwrap(me).qualified_set[input[1].sender_index] = 0
    /\ Slot(Unwrap(me), input[1].sender_index) = None
    /\ Canonical(Unwrap(prev), input[2])
    /\ IsSome(Slot(Unwrap(me), input[2].sender_index))

\* the entry an item leaves in indexed_received_shares: the two scalars it
\* decrypts to, in the order of the ciphertexts, and its coefficients
EntryOf(state, item) ==
    LET dec == decrypt_shares(state.communication_sk, item.indexed_shares)
    IN  Some(<<Unwrap(dec[1]), Unwrap(dec[2]), item.committed_coeffs>>)

(***************************************************************************)
(* C15. After a successful to_phase_2, indexed_received_shares holds an     *)
(* entry (s, t, sender_committed_coeffs) at slot i-1 only for senders i     *)
(* whose decrypted shares passed the Pedersen check; for a sender whose     *)
(* check failed, or whose decryption failed, or who sent nothing, the slot  *)
(* is empty.                                                                *)
(***************************************************************************)
C15_OnlyCheckedSharesRecorded ==
    (Phase2Processed /\ result = "Ok") =>
        LET state == Unwrap(prev)
        IN  \A i \in 1 .. state.environment.nr_members :
                LET passed == {k \in ItemsOf(input, i) :
                                  /\ Canonical(state, input[k])
                                  /\ PedersenHolds(state, input[k])}
                IN  IF passed = {}
                    THEN Slot(Unwrap(me), i) = None
                    ELSE \E k \in passed : Slot(Unwrap(me), i) = EntryOf(state, input[k])

\* whether complaint verifies for the member of state against an item of
\* list sent by the accused, as anyone holding the member's public
\* communication key, the item and the commitment key can check
VerifiesAgainst(state, list, complaint) ==
    \E k \in ItemsOf(list, complaint[1]) :
        ProofOfMisbehaviour_verify(complaint[3], to_public(state.communication_sk),
                                   list[k], state.environment.commitment_key,
                                   state.index, state.environment.threshold)

(***************************************************************************)
(* C16. Every complaint emitted in Broadcast2 by to_phase_2 is publicly     *)
(* verifiable: its proof verifies against the accuser's communication       *)
(* public key, the accused's round-1 data as fetched by the accuser, and    *)
(* the commitment key, without any interaction with the accuser.            *)
(***************************************************************************)
C16_ComplaintsArePubliclyVerifiable ==
    op = "to_phase_2" =>
        \A c \in 1 .. Len(Complaints) :
            VerifiesAgainst(Unwrap(prev), input, Complaints[c])

\* a Broadcast2 with a complaint for a failed share check and one for a
\* failed decryption, both verifying
C16_Witness ==
    /\ op = "to_phase_2"
    /\ Len(Complaints) = 2
    /\ Complaints[1][1] # Complaints[2][1]
    /\ Complaints[1][2] = "ShareValidityFailed"
    /\ Complaints[2][2] = "ScalarOutOfBounds"
    /\ VerifiesAgainst(Unwrap(prev), input, Complaints[1])
    /\ VerifiesAgainst(Unwrap(prev), input, Complaints[2])

\* the permutations of 1 .. n
Rearrangements(n) ==
    {p \in [1 .. n -> 1 .. n] : \A j, k \in 1 .. n : p[j] = p[k] => j = k}

\* list rearranged by permutation p
Permuted(list, p) == [k \in 1 .. Len(list) |-> list[p[k]]]

\* no two items of a list of round-1 or round-3 items have the same sender;
\* a Broadcast2 names no sender, every list of them qualifies
DistinctSenders(list) ==
    op = "to_phase_3"
    \/ \A j, k \in 1 .. Len(list) :
          list[j].sender_index = list[k].sender_index => j = k

\* what the last transition returns when it is handed list
Rerun(state, list) ==
    CASE op = "to_phase_2" -> to_phase_2(state, state.environment, list)
      [] op = "to_phase_3" -> to_phase_3(state, list)
      [] op = "to_phase_4" -> to_phase_4(state, list)

\* the complaints of an optional broadcast of round 2 or round 4, as a set
ComplaintSet(b) ==
    IF IsSome(b)
    THEN {Unwrap(b).misbehaving_parties[c] : c \in 1 .. Len(Unwrap(b).misbehaving_parties)}
    ELSE {}

\* whether return value r is the outcome of the last transition: the same
\* Ok or Err, the same qualified_set and indexed_received_shares, the same
\* set of complaints
SameOutcome(r) ==
    /\ r.result = result
    /\ IsSome(r.state) = IsSome(me)
    /\ IsSome(me) =>
          /\ Unwrap(r.state).qualified_set = Unwrap(me).qualified_set
          /\ Unwrap(r.state).indexed_received_shares = Unwrap(me).indexed_received_shares
    /\ IsSome(r.broadcast) = IsSome(broadcast)
    /\ op \in {"to_phase_2", "to_phase_4"} =>
          ComplaintSet(r.broadcast) = ComplaintSet(broadcast)

(***************************************************************************)
(* C17. Within one round the result of a transition depends only on the    *)
(* set of peer inputs, not on their order: for inputs with distinct         *)
(* senders, any permutation of the items given to to_phase_2, of the        *)
(* Broadcast2 values given to to_phase_3, or of the items given to          *)
(* to_phase_4 yields the same Ok/Err outcome, the same resulting state      *)
(* (qualified_set, indexed_received_shares) and the same set of complaints. *)
(***************************************************************************)
C17_OrderOfInputsIrrelevant ==
    (op \in {"to_phase_2", "to_phase_3", "to_phase_4"} /\ DistinctSenders(input)) =>
        \A p \in Rearrangements(Len(input)) :
            SameOutcome(Rerun(Unwrap(prev), Permuted(input, p)))

\* to_phase_2 went on with two items of different senders, one complained
\* about and one recorded, and the complaints came in the order of the items
C17_Witness ==
    /\ op = "to_phase_2"
    /\ result = "Ok"
    /\ Len(input) = 2
    /\ input[1].sender_index # input[2].sender_index
    /\ Len(Complaints) = 1
    /\ Complaints[1][1] = input[1].sender_index
    /\ IsSome(Slot(Unwrap(me), input[2].sender_index))
    /\ Unwrap(me).qualified_set[input[2].sender_index] = 1
    /\ Rerun(Unwrap(prev), Permuted(input, <<2, 1>>)).state = me

(***************************************************************************)
(* C18. No transition of a correctly initialised member aborts on           *)
(* protocol-level input: for any sequence of deliveries whose sender and    *)
(* accused indices lie in 1..n (including peers that deliver in some rounds *)
(* and not in others), to_phase_2, to_phase_3 and to_phase_4 return a typed *)
(* result, and in particular to_phase_4 finds a recorded share for every    *)
(* qualified sender whose Broadcast3 it checks.                             *)
(***************************************************************************)
C18_NoTransitionAborts ==
    /\ op \in {"to_phase_2", "to_phase_3", "to_phase_4"} =>
          result \in {"Ok", "FetchedInvalidData", "MisbehaviourHigherThreshold"}
    /\ op = "to_phase_4" =>
          \A k \in Checked(Unwrap(prev), input) :
              IsSome(Recorded(Unwrap(prev), input[k].sender_index))

(***************************************************************************)
(* C19. Whenever a transition returns Ok, at least threshold members remain *)
(* qualified: after every successful to_phase_2 and every successful        *)
(* to_phase_3 the number of entries equal to 1 in qualified_set is >=       *)
(* threshold, for every Environment (t, n) accepted by Environment::init.   *)
(***************************************************************************)
C19_ThresholdQualifiedAfterOk ==
    (op \in {"to_phase_2", "to_phase_3"} /\ result = "Ok") =>
        NumberQualified(Unwrap(me).qualified_set) >= Unwrap(me).environment.threshold

C21_InitAbortsUnlessPreconditions ==
    op = "init" =>
        LET my == input[1]
            keys == input[2]
            holds == /\ keys = Unwrap(env).nr_members
                     /\ 1 <= my
                     /\ my <= Unwrap(env).nr_members
        IN  /\ holds => (result = "Ok" /\ pc = "Phase1" /\ IsSome(me) /\ IsSome(broadcast))
            /\ ~holds => (result = "Panic" /\ pc = "Aborted" /\ me = None /\ broadcast = None)

(***************************************************************************)
(* C22. A ceremony can be set up with threshold = 1 and nr_members = 3,     *)
(* the parameters of the crate-level example: Environment::init accepts     *)
(* them and the three members can be initialised and run the phases.        *)
(***************************************************************************)
C22_ExampleParametersAccepted ==
    (op = "Environment::init" /\ input = <<1, 3>>) =>
        /\ result = "Ok"
        /\ pc = "Initialise"
        /\ IsSome(env)

\* every communication secret key
CommunicationKeys == 0 .. (GroupOrder - 1)

\* state with another communication key
WithKey(state, sk) == [state EXCEPT !.communication_sk = sk]

\* a round-1 item sealed for the holder of sk instead: the same headers and
\* plaintexts, under the symmetric keys sk recovers
SealedFor(item, sk) ==
    [ item EXCEPT
        !.indexed_shares[2].sealed = recover_symmetric_key(sk, item.indexed_shares[2]),
        !.indexed_shares[3].sealed = recover_symmetric_key(sk, item.indexed_shares[3]) ]

\* the accused and the reasons of an optional Broadcast2, in order
Accused(b) ==
    IF IsSome(b)
    THEN [c \in 1 .. Len(Unwrap(b).misbehaving_parties) |->
             <<Unwrap(b).misbehaving_parties[c][1], Unwrap(b).misbehaving_parties[c][2]>>]
    ELSE <<>>

\* the names of the fields of the broadcast of each round; none of them is
\* the communication key
BroadcastFields ==
    CASE op = "init" -> {"committed_coefficients", "encrypted_shares"}
      [] op = "to_phase_3" -> {"committed_coefficients"}
      [] OTHER -> {"misbehaving_parties"}

\* the names of the fields of a proof of misbehaviour
ProofFields ==
    {"symm_key_1", "symm_key_2", "encrypted_shares", "proof_decryption_1",
     "proof_decryption_2"}

(***************************************************************************)
(* C23. communication_sk never leaves the member: no value returned for     *)
(* broadcast by init, to_phase_2, to_phase_3 or to_phase_4 (Broadcast1 to   *)
(* Broadcast4) contains the member's communication secret key, and two runs *)
(* that differ only in communication_sk and receive the same decrypted      *)
(* shares emit the same Broadcast1, Broadcast3 and Broadcast4 content.  The *)
(* second run holds any other key and is handed the same plaintexts sealed  *)
(* for that key; after to_phase_2 the two states differ in the key only.    *)
(***************************************************************************)
C23_CommunicationKeyStaysPrivate ==
    /\ IsSome(broadcast) =>
          /\ DOMAIN Unwrap(broadcast) = BroadcastFields
          /\ op = "to_phase_2" =>
                \A c \in 1 .. Len(Complaints) : DOMAIN Complaints[c][3] = ProofFields
    /\ (op = "init" /\ result = "Ok") =>
          \A sk \in CommunicationKeys :
              init(MemberRng(seed, input[1]), Unwrap(env), sk,
                   Committee(input[2]), input[1]).broadcast = Unwrap(broadcast)
    /\ op = "to_phase_2" =>
          \A sk \in CommunicationKeys :
              LET state == WithKey(Unwrap(prev), sk)
                  other == to_phase_2(state, state.environment,
                                      [k \in 1 .. Len(input) |-> SealedFor(input[k], sk)])
              IN  /\ other.result = result
                  /\ IsSome(other.state) = IsSome(me)
                  /\ IsSome(me) => Unwrap(other.state) = WithKey(Unwrap(me), sk)
                  /\ Accused(other.broadcast) = Accused(broadcast)
    /\ op \in {"to_phase_3", "to_phase_4"} =>
          \A sk \in CommunicationKeys :
              LET other == Rerun(WithKey(Unwrap(prev), sk), input)
              IN  /\ other.result = result
                  /\ other.broadcast = broadcast
                  /\ IsSome(other.state) = IsSome(me)
                  /\ IsSome(me) => Unwrap(other.state) = WithKey(Unwrap(me), sk)

\* a member published a Broadcast4 disclosing two recorded scalars, and
\* would have published the same holding another communication key
C23_Witness ==
    /\ op = "to_phase_4"
    /\ IsSome(broadcast)
    /\ Len(Complaints) >= 1
    /\ \E sk \in CommunicationKeys :
          /\ sk # Unwrap(prev).communication_sk
          /\ Rerun(WithKey(Unwrap(prev), sk), input).broadcast = broadcast

\* the first position at which two byte strings of equal length differ,
\* or 0 when they are equal
FirstDifference(x, y) ==
    IF x = y THEN 0
    ELSE CHOOSE i \in 1 .. Len(x) :
            x[i] # y[i] /\ \A k \in 1 .. (i - 1) : x[k] = y[k]

\* the lexicographic comparison of two byte strings of equal length
Lexicographic(x, y) ==
    LET i == FirstDifference(x, y)
    IN  IF i = 0 THEN "Equal" ELSE IF x[i] < y[i] THEN "Less" ELSE "Greater"

(***************************************************************************)
(* C24. The ordering on MemberCommunicationPublicKey is a total order       *)
(* determined only by the public-key bytes (lexicographic byte             *)
(* comparison): it is antisymmetric, transitive and total, cmp returns      *)
(* Equal exactly when the two keys are equal, and partial_cmp always agrees *)
(* with cmp.                                                                *)
(***************************************************************************)
C24_KeyOrderingIsTotal ==
    op = "cmp" =>
        \A i, j, k \in 1 .. 3 :
            LET ij == result.cmp[i][j]
            IN  /\ ij \in {"Less", "Equal", "Greater"}
                /\ ij = Lexicographic(group_to_bytes(input[i]), group_to_bytes(input[j]))
                /\ (ij = "Equal") <=> (input[i] = input[j])
                /\ (ij = "Less") <=> (result.cmp[j][i] = "Greater")
                /\ (ij = "Less" /\ result.cmp[j][k] = "Less") => result.cmp[i][k] = "Less"
                /\ result.partial_cmp[i][j] = Some(ij)

\* three keys in ascending order, the first two told apart by their last
\* byte only and the last two by their first byte
C24_Witness ==
    /\ op = "cmp"
    /\ result.cmp[1][2] = "Less"
    /\ result.cmp[2][3] = "Less"
    /\ result.cmp[1][3] = "Less"
    /\ FirstDifference(group_to_bytes(input[1]), group_to_bytes(input[2])) = EncodingSize
    /\ FirstDifference(group_to_bytes(input[2]), group_to_bytes(input[3])) = 1

\* the coefficients a_k and b_k of the two polynomials the member of state
\* drew in init
OwnShek(state) == InitPshek(MemberRng(seed, state.index), state.environment)
OwnComm(state) == InitPcomm(MemberRng(seed, state.index), state.environment)

(***************************************************************************)
(* C25. Whenever to_phase_3 returns Ok it returns Some(Broadcast3), and     *)
(* that Broadcast3 carries exactly the threshold+1 plain coefficients       *)
(* A_k = g^{a_k} the member computed at init, which relate to the member's  *)
(* Broadcast1 commitments by E_k = h^{b_k} + A_k for every k.               *)
(***************************************************************************)
C25_Broadcast3CarriesPlainCoefficients ==
    (Phase3Ran /\ result = "Ok") =>
        /\ IsSome(broadcast)
        /\ LET state == Unwrap(prev)
               A == Unwrap(broadcast).committed_coefficients
               E == members[state.index].broadcast.committed_coefficients
           IN  /\ Len(A) = state.environment.threshold + 1
               /\ Len(E) = state.environment.threshold + 1
               /\ A = state.committed_coefficients
               /\ \A k \in 1 .. Len(A) :
                     /\ A[k] = GMul(generator, OwnShek(state)[k])
                     /\ E[k] = GAdd(GMul(state.environment.commitment_key,
                                         OwnComm(state)[k]), A[k])

\* a Broadcast3 of three coefficients, one of them blinded in Broadcast1
C25_Witness ==
    /\ Phase3Ran
    /\ result = "Ok"
    /\ IsSome(broadcast)
    /\ Len(Unwrap(broadcast).committed_coefficients) = 3
    /\ \E k \in 1 .. 3 :
          Unwrap(broadcast).committed_coefficients[k]
             # members[Unwrap(prev).index].broadcast.committed_coefficients[k]

\* the value at x of the polynomial with coefficients coeffs, lowest first
RECURSIVE PolynomialAt(_, _, _)
PolynomialAt(coeffs, x, k) ==
    IF k > Len(coeffs) THEN 0
    ELSE SAdd(SMul(coeffs[k], Pow(x, k - 1)), PolynomialAt(coeffs, x, k + 1))

\* the ephemeral scalar r of a ciphertext with header e1 = g^r
EphemeralOf(c) == CHOOSE r \in ScalarSet : c.e1 = GMul(generator, r)

\* whether ciphertext c is an encryption of scalar s under the public key of
\* member j: sealed under the key j recovers, with payload the bytes of s
EncryptsFor(c, j, s) ==
    /\ c.sealed = GMul(to_public(CommSk(j)), EphemeralOf(c))
    /\ hybrid_decrypt(CommSk(j), c) = scalar_to_bytes(s)

(***************************************************************************)
(* C26. The Broadcast1 produced by init for member my contains threshold+1  *)
(* commitments and exactly n-1 encrypted-share entries: one entry for each  *)
(* recipient j in 1..n with j != my, in ascending order of j, none for my   *)
(* itself, where entry j holds the encryptions under committee_pks[j-1] of  *)
(* p_comm(j) and p_shek(j).  A member is one whose index lies in 1..n.      *)
(***************************************************************************)
C26_Broadcast1Shape ==
    (op = "init" /\ result = "Ok" /\ input[1] >= 1) =>
        LET state == Unwrap(me)
            my == state.index
            n == state.environment.nr_members
            shares == Unwrap(broadcast).encrypted_shares
            recipient(k) == IF k < my THEN k ELSE k + 1
        IN  /\ Len(Unwrap(broadcast).committed_coefficients)
                  = state.environment.threshold + 1
            /\ Len(shares) = n - 1
            /\ \A k \in 1 .. Len(shares) :
                  LET j == recipient(k)
                  IN  /\ shares[k][1] = j
                      /\ EncryptsFor(shares[k][2], j, PolynomialAt(OwnComm(state), j, 1))
                      /\ EncryptsFor(shares[k][3], j, PolynomialAt(OwnShek(state), j, 1))

\* the middle member of three dealt to the first and to the last, two
\* different shares to each
C26_Witness ==
    /\ op = "init"
    /\ result = "Ok"
    /\ input = <<2, 3>>
    /\ Len(Unwrap(broadcast).encrypted_shares) = 2
    /\ Unwrap(broadcast).encrypted_shares[1][1] = 1
    /\ Unwrap(broadcast).encrypted_shares[2][1] = 3
    /\ Unwrap(broadcast).encrypted_shares[1][2].bytes
          # Unwrap(broadcast).encrypted_shares[1][3].bytes
    /\ Unwrap(broadcast).encrypted_shares[1][2].bytes
          # Unwrap(broadcast).encrypted_shares[2][2].bytes

\* the items of a list of round-3 items whose sender is qualified in state
FromQualified(state, list) ==
    LET Qualified(x) == state.qualified_set[x.sender_index] = 1
    IN  SelectSeq(list, Qualified)

\* the senders of a list of round-3 items that are disqualified in state
DisqualifiedSenders(state, list) ==
    {list[k].sender_index : k \in {j \in 1 .. Len(list) :
                                      state.qualified_set[list[j].sender_index] = 0}}

(***************************************************************************)
(* C27. In to_phase_4 a Broadcast3 item from a sender whose qualified_set   *)
(* entry is 0 is skipped: it never produces a Broadcast4 entry and never    *)
(* marks that sender honest, whatever coefficients it carries.  The         *)
(* transition returns what it returns without these items, no entry of      *)
(* Broadcast4 names their senders, and no peer among them is marked honest. *)
(***************************************************************************)
C27_DisqualifiedSendersSkipped ==
    op = "to_phase_4" =>
        LET state == Unwrap(prev)
            without == to_phase_4(state, FromQualified(state, input))
        IN  /\ without.result = result
            /\ without.broadcast = broadcast
            /\ without.state = me
            /\ \A i \in DisqualifiedSenders(state, input) :
                  /\ \A c \in 1 .. Len(Complaints) : Complaints[c][1] # i
                  /\ (result # "Panic" /\ i # state.index) =>
                        Phase4Acc(state, input).honest[i] = 0

\* a member went on past the item of a disqualified peer whose coefficients
\* do not match the share recorded for it, marked a qualified peer honest
\* and published nothing
C27_Witness ==
    /\ op = "to_phase_4"
    /\ result = "Ok"
    /\ broadcast = None
    /\ Len(input) = 2
    /\ input[1].sender_index # Unwrap(prev).index
    /\ Unwrap(prev).qualified_set[input[1].sender_index] = 0
    /\ IsSome(Recorded(Unwrap(prev), input[1].sender_index))
    /\ ~CommitmentHolds(Unwrap(prev), input[1])
    /\ Phase4Acc(Unwrap(prev), input).honest[input[1].sender_index] = 0
    /\ Unwrap(prev).qualified_set[input[2].sender_index] = 1
    /\ Phase4Acc(Unwrap(prev), input).honest[input[2].sender_index] = 1

(***************************************************************************)
(* C28. The state produced by init has qualified_set equal to all 1 of      *)
(* length nr_members and no received shares, and in every reachable state   *)
(* of a member qualified_set has length nr_members with every entry in      *)
(* {0, 1}.                                                                  *)
(***************************************************************************)
C28_QualifiedSetShape ==
    /\ (op = "init" /\ result = "Ok") =>
          /\ Unwrap(me).qualified_set = [k \in 1 .. Unwrap(env).nr_members |-> 1]
          /\ Unwrap(me).indexed_received_shares = None
    /\ IsSome(me) =>
          /\ Len(Unwrap(me).qualified_set) = Unwrap(me).environment.nr_members
          /\ \A k \in 1 .. Len(Unwrap(me).qualified_set) :
                Unwrap(me).qualified_set[k] \in {0, 1}

\* a member of a committee of three in Phase4 with a peer disqualified and
\* a peer qualified
C28_Witness ==
    /\ pc = "Phase4"
    /\ IsSome(me)
    /\ Len(Unwrap(me).qualified_set) = 3
    /\ \E i, j \in 1 .. 3 :
          Unwrap(me).qualified_set[i] = 0 /\ Unwrap(me).qualified_set[j] = 1

\* the members accused in a list of round-2 broadcasts
AccusedIn(list) == {complaint[1] : complaint \in ComplaintsIn(list)}

\* the members a Phase2 state holds disqualified: those the member
\* complained about in to_phase_2
ComplainedAbout(state) ==
    {i \in 1 .. Len(state.qualified_set) : state.qualified_set[i] = 0}

(***************************************************************************)
(* C29. After the complaint step, the qualified_set held by a member in     *)
(* Phase3 is exactly: entry i-1 is 0 if and only if sender i was complained *)
(* about by this member in to_phase_2 or is accused in one of the           *)
(* Broadcast2 values supplied to to_phase_3; consequently all members that  *)
(* are given the same aggregate of every member's Broadcast2 (their own     *)
(* included) and reach Phase3 hold identical qualified_sets.  A member's    *)
(* own Broadcast2 accuses exactly those it holds disqualified after         *)
(* to_phase_2, so that with its own broadcast in the aggregate its          *)
(* qualified_set is determined by the aggregate alone.                      *)
(***************************************************************************)
C29_QualifiedSetIsUnionOfComplaints ==
    /\ (op = "to_phase_2" /\ result = "Ok") =>
          ComplainedAbout(Unwrap(me)) = {Complaints[c][1] : c \in 1 .. Len(Complaints)}
    /\ (Phase3Ran /\ result = "Ok") =>
          /\ ComplainedAbout(Unwrap(me))
                = ComplainedAbout(Unwrap(prev)) \cup AccusedIn(input)
          /\ ComplainedAbout(Unwrap(prev)) \subseteq AccusedIn(input) =>
                Unwrap(me).qualified_set
                   = [i \in 1 .. Unwrap(prev).environment.nr_members |->
                         IF i \in AccusedIn(input) THEN 0 ELSE 1]

\* a member of three entered Phase3 with the peer it complained about and
\* the peer another broadcast accuses both disqualified, its own broadcast
\* being part of the aggregate
C29_Witness ==
    /\ Phase3Ran
    /\ result = "Ok"
    /\ Len(input) = 2
    /\ \E i, j \in 1 .. Unwrap(prev).environment.nr_members :
          /\ i # j
          /\ ComplainedAbout(Unwrap(prev)) = {i}
          /\ AccusedIn(<<input[1]>>) = {j}
          /\ AccusedIn(<<input[2]>>) = {i}
          /\ ComplainedAbout(Unwrap(me)) = {i, j}

\* the fields of a member's state that init fixes
Fixed(state) ==
    << state.index, state.environment, state.communication_sk,
       state.committed_coefficients >>

(***************************************************************************)
(* C30. The fields index, environment, communication_sk and                 *)
(* committed_coefficients of a member's state are fixed by init and are     *)
(* left unchanged by to_phase_2, to_phase_3 and to_phase_4; to_phase_3      *)
(* additionally leaves indexed_received_shares unchanged.                   *)
(***************************************************************************)
C30_FixedFieldsUnchanged ==
    /\ (op = "init" /\ result = "Ok") =>
          Fixed(Unwrap(me))
             = << input[1], Unwrap(env), CommSk(input[1]),
                  InitApubs(OwnShek(Unwrap(me))) >>
    /\ (op \in {"to_phase_2", "to_phase_3", "to_phase_4"} /\ result = "Ok") =>
          Fixed(Unwrap(me)) = Fixed(Unwrap(prev))
    /\ (Phase3Ran /\ result = "Ok") =>
          Unwrap(me).indexed_received_shares = Unwrap(prev).indexed_received_shares

\* to_phase_3 changed the qualified set of a member holding a received
\* share and left the share and the fixed fields as they were
C30_Witness ==
    /\ Phase3Ran
    /\ result = "Ok"
    /\ Unwrap(me).qualified_set # Unwrap(prev).qualified_set
    /\ \E i \in 1 .. Unwrap(prev).environment.nr_members : IsSome(Recorded(Unwrap(prev), i))
    /\ Unwrap(me).indexed_received_shares = Unwrap(prev).indexed_received_shares
    /\ Fixed(Unwrap(me)) = Fixed(Unwrap(prev))

(***************************************************************************)
(* C31. to_phase_4 leaves the member's state unchanged: on Ok the Phase4    *)
(* state equals the Phase3 state field for field, so a sender named in      *)
(* Broadcast4 keeps the qualified_set entry it had in Phase3 and the        *)
(* recorded shares are preserved.                                           *)
(***************************************************************************)
C31_Phase4StateIsPhase3State ==
    (op = "to_phase_4" /\ result = "Ok") =>
        /\ DOMAIN Unwrap(me) = DOMAIN Unwrap(prev)
        /\ \A field \in DOMAIN Unwrap(prev) : Unwrap(me)[field] = Unwrap(prev)[field]
        /\ \A c \in 1 .. Len(Complaints) :
              /\ Unwrap(me).qualified_set[Complaints[c][1]] = 1
              /\ Recorded(Unwrap(me), Complaints[c][1])
                    = Recorded(Unwrap(prev), Complaints[c][1])

\* a member entered Phase4 with a Broadcast4 naming a sender that is still
\* qualified and whose share is still recorded
C31_Witness ==
    /\ op = "to_phase_4"
    /\ result = "Ok"
    /\ Len(Complaints) >= 1
    /\ Unwrap(prev).qualified_set[Complaints[1][1]] = 1
    /\ Unwrap(me).qualified_set[Complaints[1][1]] = 1
    /\ IsSome(Recorded(Unwrap(me), Complaints[1][1]))
    /\ Unwrap(me) = Unwrap(prev)

C33_DecryptionProofComplete ==
    pc = "Proved" =>
        LET sk == input[1]
            pk == GMul(generator, sk)
            K == GMul(input[2].e1, sk)
        IN  /\ result = "Ok"
            /\ Unwrap(broadcast).statement = <<generator, input[2].e1, pk, K>>
            /\ DleqZkp_verify(Unwrap(broadcast), generator, input[2].e1, pk, K)
            /\ Zkp_verify(Unwrap(broadcast), input[2], K, pk)

\* a proof was generated and accepted for a key and a header for which the
\* public key and the symmetric key differ from each other and from the bases
C33_Witness ==
    /\ pc = "Proved"
    /\ result = "Ok"
    /\ input[1] > 1
    /\ input[2].e1 \notin {zero, generator}
    /\ GMul(generator, input[1]) # GMul(input[2].e1, input[1])
    /\ Unwrap(broadcast).statement[4] = recover_symmetric_key(input[1], input[2])

\* the sum of the numbers f[1], ..., f[n]
RECURSIVE NumberSum(_, _)
NumberSum(f, n) == IF n = 0 THEN 0 ELSE f[n] + NumberSum(f, n - 1)

\* the sum in the group of the elements of a list, coordinate by coordinate
GroupSum(list) ==
    << NumberSum([k \in 1 .. Len(list) |-> list[k][1]], Len(list)) % GroupOrder,
       NumberSum([k \in 1 .. Len(list) |-> list[k][2]], Len(list)) % GroupOrder >>

(***************************************************************************)
(* C34. MasterPublicKey::from_participants returns the group sum of all     *)
(* supplied public shares for every non-empty list, and the result does not *)
(* depend on the order of the list, so two members summing the same set of  *)
(* shares obtain the same master public key.                                *)
(***************************************************************************)
C34_MasterKeyIsOrderFreeSum ==
    (op = "from_participants" /\ Len(input) >= 1) =>
        /\ result = "Ok"
        /\ Unwrap(broadcast) = GroupSum(input)
        /\ \A p \in Rearrangements(Len(input)) :
              from_participants(Permuted(input, p)) = Unwrap(broadcast)

\* three different shares were summed, and the sum is none of them
C34_Witness ==
    /\ op = "from_participants"
    /\ result = "Ok"
    /\ Len(input) = 3
    /\ Cardinality({input[1], input[2], input[3]}) = 3
    /\ zero \notin {input[1], input[2], input[3]}
    /\ Unwrap(broadcast) \notin {input[1], input[2], input[3]}
    /\ Unwrap(broadcast) = GAdd(input[3], GAdd(input[2], input[1]))

(***************************************************************************)
(* C35. Scalar::exp_iter yields the powers of the scalar in order: the k-th *)
(* item (k = 0, 1, 2, ...) is x^k, the first item is one for every x        *)
(* including zero, and the iterator never ends (next always returns a       *)
(* value), so taking threshold+1 items gives exactly 1, x, ..., x^threshold.*)
(***************************************************************************)
C35_ExpIterYieldsPowers ==
    op = "next" =>
        LET x == from_u64(input)
            taken == Len(members)
        IN  /\ IsSome(result)
            /\ Unwrap(result) = Pow(x, taken - 1)
            /\ members = [k \in 1 .. taken |-> Pow(x, k - 1)]
            /\ members[1] = one
            /\ IsSome(ScalarExp_next(Unwrap(me)).item)
            /\ exp_iter_take(x, taken) = members

\* three items were taken from the iterator over the powers of zero
C35_Witness ==
    /\ op = "next"
    /\ from_u64(input) = 0
    /\ input > 0
    /\ members = <<1, 0, 0>>
    /\ result = Some(0)

=============================================================================
